---- MODULE Spec2Model ----
(***************************************************************************)
(* cdp-html-shot: the transport actor, the nested-envelope calling         *)
(* convention of tabs, the browser-process supervisor with its global      *)
(* singleton, and the element screenshot sequence.                         *)
(***************************************************************************)
EXTENDS Integers, Sequences, FiniteSets, TLC

\* Callers (tokio tasks) that may start an operation on the shared Transport.
MaxCalls == 2

\* Navigations (goto, reload) that may be started.
MaxNavCalls == 1

\* Calls started by the task that keeps calling a frozen browser.
MaxStallCalls == 103

\* Launch attempts made through the singleton accessor.
MaxLaunches == 3

\* Calls of instance() and shutdown_global().
MaxInstanceCalls == 3

\* Browser processes that die outside the library.
MaxKills == 1

\* Screenshot calls made on the tab.
MaxShots == 2

\* Tab::new and Tab::close calls started.
MaxTabOps == 4

\* Times are in milliseconds.  The readiness script's configuration, the
\* interval of its polls, and the wait of get_target_msg for the reply.
TOTAL_TIMEOUT == 30000
STABILITY_THRESHOLD == 200
MIN_RENDER_TIME == 500
PollInterval == 100
TargetMsgTimeout == 30000

\* The clock stops here, and the script starts at most this long after the call.
MaxClock == 30400
MaxStartDelay == 100

\* Event occurrences the browser emits on its own.
MaxEvents == 1

\* Calls made by the callers that wait for events.
MaxEventCalls == 2

\* Calls made by the callers that navigate without waiting.
MaxNoWaitCalls == 2

\* Calls made by the callers that draw ids.
MaxIdCalls == 2

\* Calls of capture_html_with_options.
MaxCaptures == 2

\* remove_dir_all is tried ten times in the loop of Drop for CustomTempDir
\* and once more after it.
RemovalAttempts == 11

\* Browsers launched with Browser::new.
MaxOwnedLaunches == 1

\* Calls of find_element.
MaxFinds == 2

\* Calls of instance() and instance_with_path.
MaxPathCalls == 3

\* Launch attempts of the accessor called with paths.
MaxPathLaunches == 2

\* Largest device_scale_factor of a viewport.
MaxScale == 2

\* Calls of the transport primitives around a Shutdown.
MaxShutdownCalls == 3

\* Calls of the transport primitives while the peer sends frames of its own.
MaxFrameCalls == 1

\* Calls whose replies arrive in any order, or late.
MaxOrderCalls == 3

\* Command names that find_chrome looks up on PATH.
MaxApps == 2

\* Lines the child writes to its error stream.
MaxLines == 3

\* Launches that create a profile directory.
MaxDirLaunches == 2

\* Seconds of the wall clock that pass while profile directories are named.
MaxSeconds == 2

\* Capacity of the actor's command channel.
ChanCap == 100

\* Two tabs attached to one browser; a tab is named by its session id and is
\* driven by one task.
Sessions == {"s1", "s2"}

Kinds == {"send", "recv", "ev"}

NavMethods == {"Page.navigate", "Page.reload"}

LoadEvent == "Page.loadEventFired"

EventMethods == {LoadEvent, "Page.domContentEventFired"}

VARIABLES
    GLOBAL_ID_COUNTER,  \* transport.rs: static AtomicUsize
    command_rx,         \* mpsc queue of TransportMessage, Transport.tx -> actor
    pending_requests,   \* actor: id -> oneshot sender
    event_listeners,    \* actor: <<session, method>> -> sequence of senders
    actor,              \* "running" | "writing" (in a socket write) | "stopped"
    ws_sink,            \* commands written to the socket, not yet answered
    ws_stream,          \* inbound frames the actor has not read yet
    ws_state,           \* "open" | "stalled" | "error" | "eof"
    pc,                 \* per tab task: where its current call is suspended
    fut,                \* per tab task: its oneshot receivers
    result,             \* per tab task: outcome of its last finished call
    nav,                \* per tab task: method of the goto/reload in progress
    calls,              \* number of operations started so far
    dropped_replies     \* ids of embedded replies the actor found no waiter for

tvars == <<GLOBAL_ID_COUNTER, command_rx, pending_requests, event_listeners,
           actor, ws_sink, ws_stream, ws_state, pc, fut, result, nav, calls,
           dropped_replies>>

\* Browser supervisor and singleton registry (browser.rs).
VARIABLES
    GLOBAL_BROWSER,     \* the slot: 0 (None) or the number of the Browser held
    lock,               \* holder of the GLOBAL_BROWSER mutex, "" when free
    caller,             \* per task: position in instance()/shutdown_global()
    browser,            \* per launch attempt: child, handle, temp, transport
    launches,           \* launch attempts started so far
    icalls,             \* instance()/shutdown_global() calls started so far
    kills,              \* browser processes that died outside the library
    faults              \* something went wrong: a death, a failed probe or launch

bvars == <<GLOBAL_BROWSER, lock, caller, browser, launches, icalls, kills,
           faults>>

\* Screenshot of one tab (element.rs, lib.rs).
VARIABLES
    shot,               \* the screenshot call in progress or last finished
    tab_override,       \* browser side: the background override is installed
    shots               \* screenshot calls started so far

svars == <<shot, tab_override, shots>>

\* Tabs: attach and close (tab.rs).
VARIABLES
    tabs,               \* per tab: position, browser-side target, last outcome
    tab_ops             \* Tab::new and Tab::close calls started so far

avars == <<tabs, tab_ops>>

\* Tab::set_content: the clock, the document, the readiness script evaluated
\* in the page, and the Rust caller waiting for the reply.
VARIABLES
    clock, page, script, set_content
rvars == <<clock, page, script, set_content>>
\* Events: the occurrences the browser has emitted, and the tabs whose
\* goto_no_wait returned Ok.
VARIABLES
    events, navigated
evars == <<events, navigated>>
\* Browser::capture_html_with_options: per task, the call in progress.
VARIABLES
    capture, captures
cvars == <<capture, captures>>
\* Drop for CustomTempDir: per browser, the calls of remove_dir_all made.
VARIABLES
    attempts
dvars == <<attempts>>
\* Tab::find_element: per tab, the call in progress.
VARIABLES
    find, finds
fvars == <<find, finds>>
\* The capture request of a screenshot call: the call in progress, the
\* Page.captureScreenshot request placed last, and one placed before it.
VARIABLES
    clip_call, latest, earlier
pvars == <<clip_call, latest, earlier>>
\* Browser::find_chrome: the call made, with what it found on the machine and
\* what it returned.
VARIABLES
    chrome
hvars == <<chrome>>
\* Browser::wait_for_ws: the error stream of the child, the blocking reader,
\* the outcomes handed to the caller, and the call.
VARIABLES
    stderr, reader, sent, wcall
wvars == <<stderr, reader, sent, wcall>>
\* CustomTempDir::new: the wall clock in seconds, the directories that exist
\* under temp/, and per launch its position and its directory.
VARIABLES
    second, fs_dirs, dir_launch
nvars == <<second, fs_dirs, dir_launch>>
vars == <<tvars, bvars, svars, avars, rvars, evars, cvars, dvars, fvars, pvars, hvars, wvars, nvars>>

not_tvars == <<bvars, svars, avars, rvars, evars, cvars, dvars, fvars, pvars, hvars, wvars, nvars>>
not_bvars == <<tvars, svars, avars, rvars, evars, cvars, dvars, fvars, pvars, hvars, wvars, nvars>>
not_svars == <<tvars, bvars, avars, rvars, evars, cvars, dvars, fvars, pvars, hvars, wvars, nvars>>
not_avars == <<tvars, bvars, svars, rvars, evars, cvars, dvars, fvars, pvars, hvars, wvars, nvars>>
not_rvars == <<tvars, bvars, svars, avars, evars, cvars, dvars, fvars, pvars, hvars, wvars, nvars>>
not_evars == <<tvars, bvars, svars, avars, rvars, cvars, dvars, fvars, pvars, hvars, wvars, nvars>>
not_cvars == <<tvars, bvars, svars, avars, rvars, evars, dvars, fvars, pvars, hvars, wvars, nvars>>
not_dvars == <<tvars, bvars, svars, avars, rvars, evars, cvars, fvars, pvars, hvars, wvars, nvars>>
not_fvars == <<tvars, bvars, svars, avars, rvars, evars, cvars, dvars, pvars, hvars, wvars, nvars>>
not_pvars == <<tvars, bvars, svars, avars, rvars, evars, cvars, dvars, fvars, hvars, wvars, nvars>>
not_hvars == <<tvars, bvars, svars, avars, rvars, evars, cvars, dvars, fvars, pvars, wvars, nvars>>
not_wvars == <<tvars, bvars, svars, avars, rvars, evars, cvars, dvars, fvars, pvars, hvars, nvars>>
not_nvars == <<tvars, bvars, svars, avars, rvars, evars, cvars, dvars, fvars, pvars, hvars, wvars>>

----------------------------------------------------------------------------
\* JSON optional fields: absent is <<>>, present is <<v>>.
None == <<>>
Some(x) == <<x>>
IsSome(o) == o # <<>>
Get(o) == o[1]

NoGot == [id |-> 0, variant |-> "", owner |-> ""]

\* A counter that stops counting after its first value.
next_id_stuck(counter) == IF counter = 0 THEN 1 ELSE counter

\* fetch_add(1) + 1
next_id(counter) == counter + 1

\* The oneshot sender that belongs to the current receiver k of task t.
Tx(t, k, n) == [t |-> t, k |-> k, n |-> n]

NewFut(t, k, id) ==
    [st |-> "wait", n |-> fut[t][k].n + 1, id |-> id, got |-> NoGot]

\* A receiver that went out of scope; n still tells its sender apart.
DropFut(f) == [st |-> "none", n |-> f.n, id |-> 0, got |-> NoGot]

\* Effect on the receivers of: values sent through senders (delivered, a set
\* of <<tx, got>>) and senders dropped without a value.  A sender whose
\* receiver is gone (the call returned) has no effect.
FutAfter(F, delivered, dropped) ==
    [t \in Sessions |-> [k \in Kinds |->
        LET f == F[t][k]
            me == Tx(t, k, f.n)
        IN  IF f.st # "wait" THEN f
            ELSE IF \E d \in delivered : d[1] = me
                 THEN LET d == CHOOSE d \in delivered : d[1] = me
                      IN  [f EXCEPT !.st = IF d[2].variant = "WsSendFailed"
                                           THEN "err" ELSE "ok",
                                    !.got = d[2]]
            ELSE IF me \in dropped
                 THEN [f EXCEPT !.st = "err", !.got.variant = "ChannelClosed"]
            ELSE f]]

Insert(table, key, val) ==
    [k \in DOMAIN table \cup {key} |-> IF k = key THEN val ELSE table[k]]

Remove(table, key) == [k \in DOMAIN table \ {key} |-> table[k]]

Range(s) == {s[i] : i \in DOMAIN s}

----------------------------------------------------------------------------
\* Wire shapes.

TopCmd(id, method, owner) ==
    [id |-> id, method |-> method, sessionId |-> "", inner |-> None,
     owner |-> owner]

WrapCmd(outer, session, inner, method) ==
    [id |-> Some(outer), method |-> "Target.sendMessageToTarget",
     sessionId |-> session,
     inner |-> Some([id |-> inner, method |-> method]), owner |-> session]

\* {id, result}
RespFrame(c) ==
    [id |-> c.id, result |-> TRUE, params |-> None, owner |-> c.owner,
     cause |-> c.id, text |-> TRUE]

\* {id, error}: no result field
ErrFrame(c) ==
    [id |-> c.id, result |-> FALSE, params |-> None, owner |-> c.owner,
     cause |-> c.id, text |-> TRUE]

\* Target.receivedMessageFromTarget carrying {id, result}
TargetReply(c) ==
    [id |-> None, result |-> FALSE,
     params |-> Some([sessionId |-> c.sessionId,
                      message |-> [id |-> Some(Get(c.inner).id),
                                   method |-> ""]]),
     owner |-> c.owner, cause |-> c.id, text |-> TRUE]

\* Target.receivedMessageFromTarget carrying {method, params}
TargetEvent(session, method, cause) ==
    [id |-> None, result |-> FALSE,
     params |-> Some([sessionId |-> session,
                      message |-> [id |-> None, method |-> method]]),
     owner |-> session, cause |-> cause, text |-> TRUE]

----------------------------------------------------------------------------
\* State of the supervisor after start-up: nothing launched.
Tasks == {"t1", "t2"}

\* Launch attempts are numbered in the order they start.
Browsers == 1..MaxLaunches

\* Positions at which a task holds the GLOBAL_BROWSER mutex.
Critical ==
    {"locked", "closing", "closing_rm", "launch", "launch_spawn",
     "launch_connect", "blank", "store", "sd_locked", "sd_closing", "sd_rm"}

NoBrowser ==
    [child |-> "none", handle |-> "none", temp |-> "none",
     transport |-> "none", ready |-> FALSE, failed |-> FALSE, exe |-> ""]

\* custom_path: None
NoPath == ""

\* Executable paths a caller can pass.
Paths == {"p1", "p2"}

IdleCaller ==
    [pc |-> "idle", cur |-> 0, ret |-> 0, slot_dead |-> 0, path |-> NoPath,
     probe |-> "none"]

InitBrowser ==
    /\ GLOBAL_BROWSER = 0
    /\ lock = ""
    /\ caller = [t \in Tasks |-> IdleCaller]
    /\ browser = [b \in Browsers |-> NoBrowser]
    /\ launches = 0
    /\ icalls = 0
    /\ kills = 0
    /\ faults = FALSE

\* No screenshot was taken yet.
InitShot ==
    /\ shot = [pc |-> "idle", via |-> "",
               opts |-> [format |-> "png", omit_background |-> FALSE,
                         viewport |-> FALSE],
               override_sent |-> FALSE, clear_sent |-> FALSE, outcome |-> "",
               failed_at |-> ""]
    /\ tab_override = FALSE
    /\ shots = 0

TabIds == {"a", "b"}

\* No tab was opened yet.
InitTabs ==
    /\ tabs = [i \in TabIds |->
          [pc |-> "none", target |-> "none", created |-> FALSE,
           outcome |-> "", was_closed |-> FALSE]]
    /\ tab_ops = 0

\* The image of the content either loads at some time or never does.
Contents == {"loads", "never"}

InitReady ==
    /\ clock = 0
    /\ page = [readyState |-> "none", fonts |-> "none", link |-> "none",
               img |-> "none"]
    /\ script = [stage |-> "idle", startTime |-> 0, observer |-> FALSE,
                 lastMutationTime |-> 0, wake |-> 0, promise |-> "pending"]
    /\ set_content = [pc |-> "idle", content |-> "loads", started |-> 0,
                      reply |-> "none", outcome |-> "None"]

InitEvents ==
    /\ events = {}
    /\ navigated = [t \in Sessions |-> FALSE]

\* Images an element screenshot can produce.
Images == {"img1", "img2"}

IdleCapture ==
    [pc |-> "idle", viewport |-> FALSE, shot |-> "", close |-> "",
     outcome |-> "", value |-> ""]

InitCapture ==
    /\ capture = [t \in Tasks |-> IdleCapture]
    /\ captures = 0

InitAttempts == attempts = [b \in Browsers |-> 0]

IdleFind ==
    [pc |-> "idle", matches |-> FALSE, node_id |-> 0, outcome |-> "",
     error |-> ""]

InitFind ==
    /\ find = [i \in TabIds |-> IdleFind]
    /\ finds = 0

IdleClip ==
    [pc |-> "idle", via |-> "", viewport |-> 0, clip |-> <<>>]

InitClip ==
    /\ clip_call = IdleClip
    /\ latest = <<>>
    /\ earlier = <<>>

InitChrome == chrome = [pc |-> "idle"]

InitWs ==
    /\ stderr = [lines |-> <<>>, open |-> FALSE, written |-> 0]
    /\ reader = [src |-> "", pc |-> "none", found |-> FALSE, tx |-> FALSE,
                 consumed |-> <<>>]
    /\ sent = <<>>
    /\ wcall = [pc |-> "idle", bound |-> FALSE, ret |-> <<>>]

InitDirs ==
    /\ second = 1
    /\ fs_dirs = {}
    /\ dir_launch = [l \in 1..MaxDirLaunches |-> [pc |-> "idle", path |-> <<>>]]

Init ==
    /\ GLOBAL_ID_COUNTER = 0
    /\ command_rx = <<>>
    /\ pending_requests = <<>>
    /\ event_listeners = <<>>
    /\ actor = "running"
    /\ ws_sink = {}
    /\ ws_stream = {}
    /\ ws_state = "open"
    /\ pc = [t \in Sessions |-> "idle"]
    /\ fut = [t \in Sessions |-> [k \in Kinds |->
                [st |-> "none", n |-> 0, id |-> 0, got |-> NoGot]]]
    /\ result = [t \in Sessions |-> "none"]
    /\ nav = [t \in Sessions |-> ""]
    /\ calls = 0
    /\ dropped_replies = {}
    /\ InitBrowser
    /\ InitShot
    /\ InitTabs
    /\ InitReady
    /\ InitEvents
    /\ InitCapture
    /\ InitAttempts
    /\ InitFind
    /\ InitClip
    /\ InitChrome
    /\ InitWs
    /\ InitDirs

----------------------------------------------------------------------------
\* Callers.  A call is suspended at pc[t] until its receivers are resolved.

Finish(t, outcome) ==
    /\ pc' = [pc EXCEPT ![t] = "idle"]
    /\ result' = [result EXCEPT ![t] = outcome]
    /\ fut' = [fut EXCEPT ![t] = [k \in Kinds |-> DropFut(fut[t][k])]]

\* Transport::send: queue the Request, then wait (bounded) on the receiver.
RequestMsg(t, cmd) ==
    [type |-> "Request", cmd |-> cmd, tx |-> Tx(t, "send", fut[t].send.n + 1)]

\* Transport::get_target_msg: queue the ListenTargetMessage, then wait.
ListenMsg(t, msg_id) ==
    [type |-> "ListenTargetMessage", id |-> msg_id,
     tx |-> Tx(t, "recv", fut[t].recv.n + 1)]

\* Transport::wait_for_event: queue the WaitForEvent, then wait.
WaitMsg(t, method) ==
    [type |-> "WaitForEvent", session_id |-> t, method |-> method,
     tx |-> Tx(t, "ev", fut[t].ev.n + 1)]

\* try_join!(send_fut, recv_fut): the first poll runs send_fut up to its
\* wait, then recv_fut up to its wait.
JoinQueue(t, outer, msg_id, method) ==
    << RequestMsg(t, WrapCmd(outer, t, msg_id, method)), ListenMsg(t, msg_id) >>

\* A top-level command sent directly (Tab::new, Browser::is_alive); with_id
\* is false for a command value that carries no numeric id.
Transport_send(t, with_id) ==
    /\ pc[t] = "idle"
    /\ calls' = calls + 1
    /\ LET id == next_id(GLOBAL_ID_COUNTER)
           cmd == TopCmd(IF with_id THEN Some(id) ELSE None,
                         "Target.getTargets", t)
       IN  /\ GLOBAL_ID_COUNTER' = IF with_id THEN id ELSE GLOBAL_ID_COUNTER
           /\ IF actor = "stopped"
              THEN /\ Finish(t, "ActorDropped")
                   /\ UNCHANGED command_rx
              ELSE IF Len(command_rx) < ChanCap
              THEN /\ command_rx' = Append(command_rx, RequestMsg(t, cmd))
                   /\ fut' = [fut EXCEPT ![t].send =
                                NewFut(t, "send", IF with_id THEN id ELSE 0)]
                   /\ pc' = [pc EXCEPT ![t] = "send"]
                   /\ result' = [result EXCEPT ![t] = "none"]
              ELSE /\ fut' = [fut EXCEPT ![t].send =
                                [NewFut(t, "send", IF with_id THEN id ELSE 0)
                                    EXCEPT !.st = "new"]]
                   /\ pc' = [pc EXCEPT ![t] = "send_full"]
                   /\ result' = [result EXCEPT ![t] = "none"]
                   /\ UNCHANGED command_rx
    /\ UNCHANGED not_tvars
    /\ UNCHANGED <<pending_requests, event_listeners, actor, ws_sink,
                   ws_stream, ws_state, nav, dropped_replies>>

\* self.tx.send(..).await of a call that found the queue full: it resumes when
\* the actor has taken a message, or when the actor is gone.
Transport_send_enqueue(t) ==
    /\ pc[t] = "send_full"
    /\ IF actor = "stopped"
       THEN /\ Finish(t, "ActorDropped")
            /\ UNCHANGED command_rx
       ELSE /\ Len(command_rx) < ChanCap
            /\ command_rx' = Append(command_rx,
                   [type |-> "Request",
                    cmd |-> TopCmd(IF fut[t].send.id = 0 THEN None
                                   ELSE Some(fut[t].send.id),
                                   "Target.getTargets", t),
                    tx |-> Tx(t, "send", fut[t].send.n)])
            /\ fut' = [fut EXCEPT ![t].send.st = "wait"]
            /\ pc' = [pc EXCEPT ![t] = "send"]
            /\ UNCHANGED result
    /\ UNCHANGED not_tvars
    /\ UNCHANGED <<GLOBAL_ID_COUNTER, pending_requests, event_listeners, actor,
                   ws_sink, ws_stream, ws_state, nav, calls, dropped_replies>>

Transport_send_return(t) ==
    /\ pc[t] = "send"
    /\ fut[t].send.st \in {"ok", "err"}
    /\ Finish(t, IF fut[t].send.st = "ok" THEN "Ok"
                 ELSE fut[t].send.got.variant)
    /\ UNCHANGED not_tvars
    /\ UNCHANGED <<GLOBAL_ID_COUNTER, command_rx, pending_requests,
                   event_listeners, actor, ws_sink, ws_stream, ws_state, nav,
                   calls, dropped_replies>>

\* send_and_get_msg up to its join; the caller allocated msg_id just before.
send_and_get_msg(t, method, at) ==
    LET msg_id == next_id(GLOBAL_ID_COUNTER)
        outer == next_id(msg_id)
    IN  /\ GLOBAL_ID_COUNTER' = outer
        /\ IF actor # "stopped"
           THEN /\ Len(command_rx) + 1 < ChanCap
                /\ command_rx' = command_rx \o JoinQueue(t, outer, msg_id, method)
                /\ fut' = [fut EXCEPT ![t].send = NewFut(t, "send", outer),
                                      ![t].recv = NewFut(t, "recv", msg_id)]
                /\ pc' = [pc EXCEPT ![t] = at]
                /\ result' = [result EXCEPT ![t] = "none"]
           ELSE /\ Finish(t, "ActorDropped")
                /\ UNCHANGED command_rx

\* The join is over: one future failed, or both are ready.
JoinDone(t) ==
    \/ fut[t].send.st = "err"
    \/ fut[t].recv.st = "err"
    \/ fut[t].send.st = "ok" /\ fut[t].recv.st = "ok"

\* Result of send_and_get_msg after the join.
JoinResult(t) ==
    IF fut[t].send.st = "err" THEN fut[t].send.got.variant
    ELSE IF fut[t].recv.st = "err" THEN fut[t].recv.got.variant
    ELSE IF fut[t].recv.got.variant = "Target" THEN "Ok"
    ELSE "Unexpected"

\* Tab::send_cmd (also activate, close, evaluate, goto_no_wait, ...): one tab
\* command.
Tab_send_cmd(t, method) ==
    /\ pc[t] = "idle"
    /\ calls' = calls + 1
    /\ send_and_get_msg(t, method, "cmd")
    /\ UNCHANGED not_tvars
    /\ UNCHANGED <<pending_requests, event_listeners, actor, ws_sink,
                   ws_stream, ws_state, nav, dropped_replies>>

Tab_send_cmd_return(t) ==
    /\ pc[t] = "cmd"
    /\ JoinDone(t)
    /\ Finish(t, JoinResult(t))
    /\ UNCHANGED not_tvars
    /\ UNCHANGED <<GLOBAL_ID_COUNTER, command_rx, pending_requests,
                   event_listeners, actor, ws_sink, ws_stream, ws_state, nav,
                   calls, dropped_replies>>

\* Transport::wait_for_event called on its own.
Transport_wait_for_event(t) ==
    /\ pc[t] = "idle"
    /\ calls' = calls + 1
    /\ IF actor # "stopped"
       THEN /\ Len(command_rx) < ChanCap
            /\ command_rx' = Append(command_rx, WaitMsg(t, LoadEvent))
            /\ fut' = [fut EXCEPT ![t].ev = NewFut(t, "ev", 0)]
            /\ pc' = [pc EXCEPT ![t] = "wait"]
            /\ result' = [result EXCEPT ![t] = "none"]
       ELSE /\ Finish(t, "ActorDropped")
            /\ UNCHANGED command_rx
    /\ UNCHANGED not_tvars
    /\ UNCHANGED <<GLOBAL_ID_COUNTER, pending_requests, event_listeners, actor,
                   ws_sink, ws_stream, ws_state, nav, dropped_replies>>

Transport_wait_for_event_return(t) ==
    /\ pc[t] = "wait"
    /\ fut[t].ev.st \in {"ok", "err"}
    /\ Finish(t, IF fut[t].ev.st = "ok" THEN "Ok" ELSE fut[t].ev.got.variant)
    /\ UNCHANGED not_tvars
    /\ UNCHANGED <<GLOBAL_ID_COUNTER, command_rx, pending_requests,
                   event_listeners, actor, ws_sink, ws_stream, ws_state, nav,
                   calls, dropped_replies>>

\* Tab::goto / Tab::reload: Page.enable first.
Tab_goto(t, method) ==
    /\ pc[t] = "idle"
    /\ calls' = calls + 1
    /\ send_and_get_msg(t, "Page.enable", "goto_enable")
    /\ nav' = [nav EXCEPT ![t] = IF pc'[t] = "idle" THEN "" ELSE method]
    /\ UNCHANGED not_tvars
    /\ UNCHANGED <<pending_requests, event_listeners, actor, ws_sink,
                   ws_stream, ws_state, dropped_replies>>

\* ... then the load-event future is created (nothing runs until it is
\* awaited) and the navigation command is sent and joined.
Tab_goto_navigate(t) ==
    /\ pc[t] = "goto_enable"
    /\ JoinDone(t)
    /\ IF JoinResult(t) = "Ok"
       THEN send_and_get_msg(t, nav[t], "goto_navigate")
       ELSE /\ Finish(t, JoinResult(t))
            /\ UNCHANGED <<GLOBAL_ID_COUNTER, command_rx>>
    /\ nav' = [nav EXCEPT ![t] = IF pc'[t] = "idle" THEN "" ELSE @]
    /\ UNCHANGED not_tvars
    /\ UNCHANGED <<pending_requests, event_listeners, actor, ws_sink,
                   ws_stream, ws_state, calls, dropped_replies>>

\* ... then load_event_future.await: wait_for_event starts here.
Tab_goto_await_load(t) ==
    /\ pc[t] = "goto_navigate"
    /\ JoinDone(t)
    /\ IF JoinResult(t) # "Ok"
       THEN /\ Finish(t, JoinResult(t))
            /\ UNCHANGED command_rx
       ELSE IF actor # "stopped"
       THEN /\ Len(command_rx) < ChanCap
            /\ command_rx' = Append(command_rx, WaitMsg(t, LoadEvent))
            /\ fut' = [fut EXCEPT ![t].send = DropFut(@), ![t].recv = DropFut(@),
                                  ![t].ev = NewFut(t, "ev", 0)]
            /\ pc' = [pc EXCEPT ![t] = "goto_load"]
            /\ UNCHANGED result
       ELSE /\ Finish(t, "ActorDropped")
            /\ UNCHANGED command_rx
    /\ nav' = [nav EXCEPT ![t] = IF pc'[t] = "idle" THEN "" ELSE @]
    /\ UNCHANGED not_tvars
    /\ UNCHANGED <<GLOBAL_ID_COUNTER, pending_requests, event_listeners, actor,
                   ws_sink, ws_stream, ws_state, calls, dropped_replies>>

Tab_goto_return(t) ==
    /\ pc[t] = "goto_load"
    /\ fut[t].ev.st \in {"ok", "err"}
    /\ Finish(t, IF fut[t].ev.st = "ok" THEN "Ok" ELSE fut[t].ev.got.variant)
    /\ nav' = [nav EXCEPT ![t] = ""]
    /\ UNCHANGED not_tvars
    /\ UNCHANGED <<GLOBAL_ID_COUNTER, command_rx, pending_requests,
                   event_listeners, actor, ws_sink, ws_stream, ws_state,
                   calls, dropped_replies>>

\* Transport::shutdown: queue Shutdown, ignoring a closed channel.
Transport_shutdown ==
    /\ calls' = calls + 1
    /\ actor # "stopped"
    /\ Len(command_rx) < ChanCap
    /\ command_rx' = Append(command_rx, [type |-> "Shutdown"])
    /\ UNCHANGED not_tvars
    /\ UNCHANGED <<GLOBAL_ID_COUNTER, pending_requests, event_listeners, actor,
                   ws_sink, ws_stream, ws_state, pc, fut, result, nav,
                   dropped_replies>>

\* time::timeout(30 s, rx) around each receiver: the timer of a receiver that
\* holds nothing fires, the future yields the timeout error and `?` (through
\* try_join! for a joined pair) returns it from the call.
Timeout(t) ==
    /\ \E k \in Kinds : fut[t][k].st = "wait"
    /\ Finish(t, "Timeout")
    /\ nav' = [nav EXCEPT ![t] = ""]
    /\ UNCHANGED not_tvars
    /\ UNCHANGED <<GLOBAL_ID_COUNTER, command_rx, pending_requests,
                   event_listeners, actor, ws_sink, ws_stream, ws_state, calls,
                   dropped_replies>>

----------------------------------------------------------------------------
\* TransportActor::run.  One select! round is one action; select! takes any
\* ready branch.

\* A parse that takes any frame with a numeric id for a response.
ParseResponseAnyId(f) == IF IsSome(f.id) THEN Some(Get(f.id)) ELSE None

\* serde_json::from_str::<Response>: needs a numeric id and a result field.
ParseResponse(f) == IF IsSome(f.id) /\ f.result THEN Some(Get(f.id)) ELSE None

\* serde_json::from_str::<TargetMessage> and the inner message string.
ParseTarget(f) == IF IsSome(f.params) THEN Some(Get(f.params).message) ELSE None

\* Key under which the waiter of a top-level response is looked up.
ResponseKey(f) == Get(ParseResponse(f))

\* Resolves the oldest registered waiter instead of the one the reply names.
EmbeddedKeyOldest(inner) ==
    IF DOMAIN pending_requests # {}
    THEN CHOOSE k \in DOMAIN pending_requests :
            \A j \in DOMAIN pending_requests : k <= j
    ELSE Get(inner.id)

\* Key under which the waiter of an embedded reply is looked up.
EmbeddedKey(inner) == Get(inner.id)

\* An actor that ignores the session of an event.
EventKeyAnySession(f, inner) == <<"s1", inner.method>>

\* Key under which the waiters of an event are looked up.
EventKey(f, inner) == <<Get(f.params).sessionId, inner.method>>

\* Every sender the actor still holds, in its tables and its queue.
HeldSenders ==
    {pending_requests[k] : k \in DOMAIN pending_requests}
    \cup UNION {Range(event_listeners[k]) : k \in DOMAIN event_listeners}
    \cup {m.tx : m \in {x \in Range(command_rx) : x.type # "Shutdown"}}

\* An actor that stops and keeps the senders it holds.
ActorStopsKeepingSenders ==
    /\ actor' = "stopped"
    /\ UNCHANGED <<pending_requests, event_listeners, fut>>
    /\ command_rx' = <<>>

\* run returns: the actor, its tables, its queue and its socket are dropped.
ActorStops ==
    /\ actor' = "stopped"
    /\ pending_requests' = <<>>
    /\ event_listeners' = <<>>
    /\ command_rx' = <<>>
    /\ fut' = FutAfter(fut, {}, HeldSenders)

\* Inbound frame: Ok(Message::Text(text)) is classified, any other Ok(_) is
\* skipped.
ActorFrame(f) ==
    /\ actor = "running"
    /\ ws_state = "open"
    /\ f \in ws_stream
    /\ ws_stream' = ws_stream \ {f}
    /\ IF ~f.text
       THEN UNCHANGED <<pending_requests, event_listeners, fut, dropped_replies>>
       ELSE IF IsSome(ParseResponse(f))
       THEN LET id == ResponseKey(f)
            IN  IF id \in DOMAIN pending_requests
                THEN /\ pending_requests' = Remove(pending_requests, id)
                     /\ fut' = FutAfter(fut,
                            {<<pending_requests[id],
                               [id |-> Get(f.id), variant |-> "Response",
                                owner |-> f.owner]>>}, {})
                     /\ UNCHANGED <<event_listeners, dropped_replies>>
                ELSE UNCHANGED <<pending_requests, event_listeners, fut,
                                 dropped_replies>>
       ELSE IF IsSome(ParseTarget(f))
       THEN LET inner == Get(ParseTarget(f))
            IN  IF IsSome(inner.id)
                THEN LET id == EmbeddedKey(inner)
                     IN  IF id \in DOMAIN pending_requests
                         THEN /\ pending_requests' = Remove(pending_requests, id)
                              /\ fut' = FutAfter(fut,
                                     {<<pending_requests[id],
                                        [id |-> Get(inner.id),
                                         variant |-> "Target",
                                         owner |-> f.owner]>>}, {})
                              /\ UNCHANGED <<event_listeners, dropped_replies>>
                         ELSE /\ dropped_replies' =
                                    dropped_replies \cup {Get(inner.id)}
                              /\ UNCHANGED <<pending_requests, event_listeners,
                                             fut>>
                ELSE IF inner.method # "" /\ Get(f.params).sessionId # ""
                THEN LET key == EventKey(f, inner)
                     IN  IF key \in DOMAIN event_listeners
                         THEN /\ event_listeners' = Remove(event_listeners, key)
                              /\ fut' = FutAfter(fut,
                                     {<<tx, [id |-> 0, variant |-> "Event",
                                             owner |-> f.owner]>> :
                                        tx \in Range(event_listeners[key])}, {})
                              /\ UNCHANGED <<pending_requests, dropped_replies>>
                         ELSE UNCHANGED <<pending_requests, event_listeners,
                                          fut, dropped_replies>>
                ELSE UNCHANGED <<pending_requests, event_listeners, fut,
                                 dropped_replies>>
       ELSE UNCHANGED <<pending_requests, event_listeners, fut, dropped_replies>>
    /\ UNCHANGED not_tvars
    /\ UNCHANGED <<GLOBAL_ID_COUNTER, command_rx, actor, ws_sink, ws_state, pc,
                   result, nav, calls>>

\* The read stream reports an error: break.
ActorStreamError ==
    /\ actor = "running"
    /\ ws_state = "error"
    /\ ActorStops
    /\ UNCHANGED not_tvars
    /\ UNCHANGED <<GLOBAL_ID_COUNTER, ws_sink, ws_stream, ws_state, pc, result,
                   nav, calls, dropped_replies>>

\* TransportMessage::Request
ActorRequest ==
    /\ actor = "running"
    /\ command_rx # <<>>
    /\ Head(command_rx).type = "Request"
    /\ LET msg == Head(command_rx)
       IN  /\ command_rx' = Tail(command_rx)
           /\ IF ~IsSome(msg.cmd.id)
              THEN /\ fut' = FutAfter(fut, {}, {msg.tx})
                   /\ UNCHANGED <<ws_sink, pending_requests, actor>>
              ELSE IF ws_state = "open"
              THEN LET id == Get(msg.cmd.id)
                   IN  /\ ws_sink' = ws_sink \cup {msg.cmd}
                       /\ pending_requests' =
                              Insert(pending_requests, id, msg.tx)
                       /\ fut' = FutAfter(fut, {},
                              IF id \in DOMAIN pending_requests
                              THEN {pending_requests[id]} ELSE {})
                       /\ UNCHANGED actor
              ELSE IF ws_state = "stalled"
              THEN /\ actor' = "writing"
                   /\ UNCHANGED <<ws_sink, pending_requests, fut>>
              ELSE /\ fut' = FutAfter(fut,
                          {<<msg.tx, [id |-> 0, variant |-> "WsSendFailed",
                                      owner |-> ""]>>}, {})
                   /\ UNCHANGED <<ws_sink, pending_requests, actor>>
    /\ UNCHANGED not_tvars
    /\ UNCHANGED <<GLOBAL_ID_COUNTER, event_listeners, ws_stream,
                   ws_state, pc, result, nav, calls, dropped_replies>>

\* TransportMessage::ListenTargetMessage
ActorListenTargetMessage ==
    /\ actor = "running"
    /\ command_rx # <<>>
    /\ Head(command_rx).type = "ListenTargetMessage"
    /\ LET msg == Head(command_rx)
       IN  /\ command_rx' = Tail(command_rx)
           /\ pending_requests' = Insert(pending_requests, msg.id, msg.tx)
           /\ fut' = FutAfter(fut, {},
                  IF msg.id \in DOMAIN pending_requests
                  THEN {pending_requests[msg.id]} ELSE {})
    /\ UNCHANGED not_tvars
    /\ UNCHANGED <<GLOBAL_ID_COUNTER, event_listeners, actor, ws_sink,
                   ws_stream, ws_state, pc, result, nav, calls,
                   dropped_replies>>

\* An actor that remembers occurrences: a waiter registered for a key that
\* has already occurred is released at once.
ActorWaitForEventLatched ==
    /\ actor = "running"
    /\ command_rx # <<>>
    /\ Head(command_rx).type = "WaitForEvent"
    /\ LET msg == Head(command_rx)
           key == <<msg.session_id, msg.method>>
       IN  /\ command_rx' = Tail(command_rx)
           /\ IF \E e \in events : e[1] = key[1] /\ e[2] = key[2]
              THEN /\ fut' = FutAfter(fut, {<<msg.tx, [id |-> 0,
                                   variant |-> "Event", owner |-> key[1]]>>}, {})
                   /\ UNCHANGED event_listeners
              ELSE /\ event_listeners' =
                         Insert(event_listeners, key,
                                IF key \in DOMAIN event_listeners
                                THEN Append(event_listeners[key], msg.tx)
                                ELSE <<msg.tx>>)
                   /\ UNCHANGED fut
    /\ UNCHANGED not_tvars
    /\ UNCHANGED <<GLOBAL_ID_COUNTER, pending_requests, actor, ws_sink,
                   ws_stream, ws_state, pc, result, nav, calls,
                   dropped_replies>>

\* TransportMessage::WaitForEvent
ActorWaitForEvent ==
    /\ actor = "running"
    /\ command_rx # <<>>
    /\ Head(command_rx).type = "WaitForEvent"
    /\ LET msg == Head(command_rx)
           key == <<msg.session_id, msg.method>>
       IN  /\ command_rx' = Tail(command_rx)
           /\ event_listeners' =
                  Insert(event_listeners, key,
                         IF key \in DOMAIN event_listeners
                         THEN Append(event_listeners[key], msg.tx)
                         ELSE <<msg.tx>>)
    /\ UNCHANGED not_tvars
    /\ UNCHANGED <<GLOBAL_ID_COUNTER, pending_requests, actor, ws_sink,
                   ws_stream, ws_state, pc, fut, result, nav, calls,
                   dropped_replies>>

\* TransportMessage::Shutdown: best-effort Browser.close, close the sink, break.
ActorShutdown ==
    /\ actor = "running"
    /\ command_rx # <<>>
    /\ Head(command_rx).type = "Shutdown"
    /\ GLOBAL_ID_COUNTER' = next_id(GLOBAL_ID_COUNTER)
    /\ IF ws_state = "stalled"
       THEN /\ actor' = "writing"
            /\ command_rx' = Tail(command_rx)
            /\ UNCHANGED <<ws_sink, pending_requests, event_listeners, fut>>
       ELSE /\ ws_sink' = IF ws_state = "open"
                          THEN ws_sink \cup
                               {TopCmd(Some(next_id(GLOBAL_ID_COUNTER)),
                                       "Browser.close", "")}
                          ELSE ws_sink
            /\ ActorStops
    /\ UNCHANGED not_tvars
    /\ UNCHANGED <<ws_stream, ws_state, pc, result, nav, calls,
                   dropped_replies>>

----------------------------------------------------------------------------
\* The browser at the other end of the socket.

\* Frames the browser sends for a command when it accepts it.
Answer(c) ==
    IF IsSome(c.inner)
    THEN {RespFrame(c), TargetReply(c)}
         \cup (IF Get(c.inner).method \in NavMethods
               THEN {TargetEvent(c.sessionId, LoadEvent, c.id)} ELSE {})
    ELSE {RespFrame(c)}

\* The browser handles one command: it accepts it, or rejects it with an
\* error-shaped reply.  A browser that never answers never takes this step.
BrowserAnswer(c, accept) ==
    /\ ws_state = "open"
    /\ c \in ws_sink
    /\ c.method # "Browser.close"
    /\ ws_sink' = ws_sink \ {c}
    /\ ws_stream' = ws_stream \cup (IF accept THEN Answer(c) ELSE {ErrFrame(c)})
    /\ UNCHANGED not_tvars
    /\ UNCHANGED <<GLOBAL_ID_COUNTER, command_rx, pending_requests,
                   event_listeners, actor, ws_state, pc, fut, result, nav,
                   calls, dropped_replies>>

\* The connection ends: with an error on the read stream, or cleanly.
WsClose(how) ==
    /\ ws_state = "open"
    /\ actor = "running"
    /\ ws_state' = how
    /\ ws_stream' = {}
    /\ UNCHANGED not_tvars
    /\ UNCHANGED <<GLOBAL_ID_COUNTER, command_rx, pending_requests,
                   event_listeners, actor, ws_sink, pc, fut, result, nav, calls,
                   dropped_replies>>

\* The browser stops reading its socket (it is frozen): once the socket's
\* buffers are full, a write to it does not complete.
WsStall ==
    /\ ws_state = "open"
    /\ actor = "running"
    /\ ws_state' = "stalled"
    /\ UNCHANGED not_tvars
    /\ UNCHANGED <<GLOBAL_ID_COUNTER, command_rx, pending_requests,
                   event_listeners, actor, ws_sink, ws_stream, pc, fut, result,
                   nav, calls, dropped_replies>>

----------------------------------------------------------------------------
\* What the actor, the timers and the browser do.
Infra ==
    \/ \E t \in Sessions : Timeout(t)
    \/ \E f \in ws_stream : ActorFrame(f)
    \/ ActorStreamError
    \/ ActorRequest
    \/ ActorListenTargetMessage
    \/ ActorWaitForEvent
    \/ \E c \in ws_sink, accept \in BOOLEAN : BrowserAnswer(c, accept)
    \/ \E how \in {"error", "eof"} : WsClose(how)

\* Callers using the transport primitives concurrently.
Next ==
    \/ \E t \in Sessions, with_id \in BOOLEAN :
          calls < MaxCalls /\ Transport_send(t, with_id)
    \/ \E t \in Sessions : Transport_send_return(t)
    \/ \E t \in Sessions, m \in {"Runtime.evaluate", "Page.navigate"} :
          calls < MaxCalls /\ Tab_send_cmd(t, m)
    \/ \E t \in Sessions : Tab_send_cmd_return(t)
    \/ \E t \in Sessions : calls < MaxCalls /\ Transport_wait_for_event(t)
    \/ \E t \in Sessions : Transport_wait_for_event_return(t)
    \/ calls < MaxCalls /\ Transport_shutdown
    \/ ActorShutdown
    \/ Infra

Spec == Init /\ [][Next]_vars

\* Callers around a Shutdown of the transport, on a socket that stays open:
\* s1 sends top-level commands, s2 tab commands, both wait for events.
NextShutdown ==
    \/ calls < MaxShutdownCalls /\ Transport_send("s1", TRUE)
    \/ \E t \in Sessions : Transport_send_return(t)
    \/ calls < MaxShutdownCalls /\ Tab_send_cmd("s2", "Runtime.evaluate")
    \/ \E t \in Sessions : Tab_send_cmd_return(t)
    \/ \E t \in Sessions :
          calls < MaxShutdownCalls /\ Transport_wait_for_event(t)
    \/ \E t \in Sessions : Transport_wait_for_event_return(t)
    \/ calls < MaxShutdownCalls /\ Transport_shutdown
    \/ ActorShutdown
    \/ ActorRequest
    \/ ActorListenTargetMessage
    \/ ActorWaitForEvent
    \/ \E f \in ws_stream : ActorFrame(f)
    \/ \E c \in ws_sink : BrowserAnswer(c, TRUE)
    \/ \E t \in Sessions : Timeout(t)

SpecShutdown == Init /\ [][NextShutdown]_vars

\* The id a frame carries: at top level, or in the message it relays.
FrameId(f) ==
    IF IsSome(f.id) THEN f.id
    ELSE IF IsSome(f.params) THEN Get(f.params).message.id
    ELSE None

\* The entry under id k belongs to a receiver that is gone: its call has
\* returned (after a timeout, or because its join failed).
Abandoned(k) ==
    LET tx == pending_requests[k]
    IN  ~(fut[tx.t][tx.k].n = tx.n /\ fut[tx.t][tx.k].st = "wait")

\* Requests of both kinds against a browser that answers every command, with
\* a result or with an error, in any order and at any time, also after the
\* caller has given up.
NextOrder ==
    \/ \E t \in Sessions : calls < MaxOrderCalls /\ Transport_send(t, TRUE)
    \/ \E t \in Sessions : Transport_send_return(t)
    \/ calls < MaxOrderCalls /\ Tab_send_cmd("s2", "Runtime.evaluate")
    \/ \E t \in Sessions : Tab_send_cmd_return(t)
    \/ \E t \in Sessions : Timeout(t)
    \/ ActorRequest
    \/ ActorListenTargetMessage
    \/ \E f \in ws_stream : ActorFrame(f)
    \/ \E c \in ws_sink, accept \in BOOLEAN : BrowserAnswer(c, accept)

SpecOrder == Init /\ [][NextOrder]_vars

\* Frames the peer can send without having been asked: replies of either
\* shape and either level for the ids the actor has in its table and for one
\* id that it has not, events, text that is no JSON object of a known shape,
\* and frames that are not text.
PeerFrames ==
    LET blank == [id |-> None, result |-> FALSE, params |-> None,
                  owner |-> "", cause |-> None, text |-> TRUE]
        ids == DOMAIN pending_requests \cup {GLOBAL_ID_COUNTER + 1}
    IN  {[blank EXCEPT !.id = Some(n), !.result = r] :
            n \in ids, r \in BOOLEAN}
        \cup {[blank EXCEPT !.params =
                  Some([sessionId |-> "s2",
                        message |-> [id |-> Some(n), method |-> ""]])] :
                n \in ids}
        \cup {[blank EXCEPT !.params =
                  Some([sessionId |-> t,
                        message |-> [id |-> None, method |-> LoadEvent]])] :
                t \in Sessions}
        \cup {blank, [blank EXCEPT !.text = FALSE]}

\* The peer writes a frame of its own while nothing else is in flight to the
\* actor.
WsInbound(f) ==
    /\ ws_state = "open"
    /\ actor = "running"
    /\ ws_stream = {}
    /\ f \in PeerFrames
    /\ ws_stream' = {f}
    /\ UNCHANGED not_tvars
    /\ UNCHANGED <<GLOBAL_ID_COUNTER, command_rx, pending_requests,
                   event_listeners, actor, ws_sink, ws_state, pc, fut, result,
                   nav, calls, dropped_replies>>

\* Callers of the transport against a peer that also sends frames of its
\* own: s1 sends top-level commands and waits for events, s2 sends tab
\* commands.
NextFrames ==
    \/ calls < MaxFrameCalls /\ Transport_send("s1", TRUE)
    \/ \E t \in Sessions : Transport_send_return(t)
    \/ calls < MaxFrameCalls /\ Tab_send_cmd("s2", "Runtime.evaluate")
    \/ \E t \in Sessions : Tab_send_cmd_return(t)
    \/ calls < MaxFrameCalls /\ Transport_wait_for_event("s1")
    \/ \E t \in Sessions : Transport_wait_for_event_return(t)
    \/ \E t \in Sessions : Timeout(t)
    \/ ActorRequest
    \/ ActorListenTargetMessage
    \/ ActorWaitForEvent
    \/ \E f \in ws_stream : ActorFrame(f)
    \/ \E c \in ws_sink : BrowserAnswer(c, TRUE)
    \/ \E f \in PeerFrames : WsInbound(f)

SpecFrames == Init /\ [][NextFrames]_vars

\* Navigation: goto and reload.
NextNav ==
    \/ \E t \in Sessions, m \in NavMethods :
          calls < MaxNavCalls /\ Tab_goto(t, m)
    \/ \E t \in Sessions : Tab_goto_navigate(t)
    \/ \E t \in Sessions : Tab_goto_await_load(t)
    \/ \E t \in Sessions : Tab_goto_return(t)
    \/ Infra

SpecNav == Init /\ [][NextNav]_vars

\* A frozen browser: one task keeps calling send and timing out.
NextStall ==
    \/ calls < MaxStallCalls /\ Transport_send("s1", TRUE)
    \/ Transport_send_enqueue("s1")
    \/ Timeout("s1")
    \/ ActorRequest
    \/ WsStall

SpecStall == Init /\ [][NextStall]_vars

\* Timers fire, and the runtime schedules the caller's task and the actor.
LiveSpecStall ==
    /\ SpecStall
    /\ WF_vars(Timeout("s1"))
    /\ WF_vars(Transport_send_enqueue("s1"))
    /\ WF_vars(ActorRequest)

----------------------------------------------------------------------------
\* Browser supervisor and the global singleton (browser.rs).

At(t, where) == caller[t].pc = where

Goto(t, where) == caller' = [caller EXCEPT ![t].pc = where]

\* A probe that reports a dead browser alive.
is_alive_always(b) == TRUE

\* Browser::is_alive can answer true: Target.getTargets is answered only by a
\* running process over a transport that was not shut down.
is_alive(b) == browser[b].child = "running" /\ browser[b].transport = "open"

\* Browser::find_chrome: the custom path when one was given, else the CHROME
\* variable or a platform path.
find_chrome(custom_path) ==
    IF custom_path # NoPath THEN custom_path ELSE "default"

\* Browser::instance_internal(custom_path): the call starts and waits for the
\* mutex.
instance_internal(t, custom_path) ==
    /\ caller[t].pc \in {"idle", "returned", "panicked"}
    /\ icalls' = icalls + 1
    /\ caller' = [caller EXCEPT ![t] =
          [pc |-> "waiting", cur |-> 0, ret |-> 0,
           slot_dead |-> IF GLOBAL_BROWSER # 0
                            /\ browser[GLOBAL_BROWSER].child = "exited"
                         THEN GLOBAL_BROWSER ELSE 0,
           path |-> custom_path, probe |-> "none"]]
    /\ UNCHANGED <<GLOBAL_BROWSER, lock, browser, launches, kills, faults>>
    /\ UNCHANGED not_bvars

\* Browser::instance()
instance(t) == instance_internal(t, NoPath)

\* Browser::instance_with_path(path)
instance_with_path(t, path) == instance_internal(t, path)

\* Takes the mutex although another task holds it.
instance_lock_free(t) ==
    /\ At(t, "waiting")
    /\ lock' = t
    /\ Goto(t, "locked")
    /\ UNCHANGED <<GLOBAL_BROWSER, browser, launches, icalls, kills, faults>>
    /\ UNCHANGED not_bvars

\* GLOBAL_BROWSER.lock().await
instance_lock(t) ==
    /\ At(t, "waiting")
    /\ lock = ""
    /\ lock' = t
    /\ Goto(t, "locked")
    /\ UNCHANGED <<GLOBAL_BROWSER, browser, launches, icalls, kills, faults>>
    /\ UNCHANGED not_bvars

\* A probe that keeps the browser in the slot only when it runs the
\* executable the caller asked for.
instance_probe_by_path(t, alive) ==
    /\ At(t, "locked")
    /\ IF GLOBAL_BROWSER = 0
       THEN /\ ~alive
            /\ Goto(t, "launch")
            /\ UNCHANGED <<lock, faults>>
       ELSE IF alive
       THEN /\ is_alive(GLOBAL_BROWSER)
            /\ IF browser[GLOBAL_BROWSER].exe = find_chrome(caller[t].path)
               THEN /\ caller' = [caller EXCEPT ![t].pc = "returned",
                                                ![t].ret = GLOBAL_BROWSER,
                                                ![t].probe = "ok"]
                    /\ lock' = ""
               ELSE /\ caller' = [caller EXCEPT ![t].pc = "closing",
                                                ![t].cur = GLOBAL_BROWSER,
                                                ![t].probe = "ok"]
                    /\ UNCHANGED lock
            /\ UNCHANGED faults
       ELSE /\ caller' = [caller EXCEPT ![t].pc = "closing",
                                        ![t].cur = GLOBAL_BROWSER,
                                        ![t].probe = "failed"]
            /\ faults' = TRUE
            /\ UNCHANGED lock
    /\ UNCHANGED <<GLOBAL_BROWSER, browser, launches, icalls, kills>>
    /\ UNCHANGED not_bvars

\* if let Some(b) = &*lock { if b.is_alive().await { return b.clone(); } ... }
\* The probe can fail on a healthy browser too (its 30 s timeout).
instance_probe(t, alive) ==
    /\ At(t, "locked")
    /\ IF GLOBAL_BROWSER = 0
       THEN /\ ~alive
            /\ Goto(t, "launch")
            /\ UNCHANGED <<lock, faults>>
       ELSE IF alive
       THEN /\ is_alive(GLOBAL_BROWSER)
            /\ caller' = [caller EXCEPT ![t].pc = "returned",
                                        ![t].ret = GLOBAL_BROWSER,
                                        ![t].probe = "ok"]
            /\ lock' = ""
            /\ UNCHANGED faults
       ELSE /\ caller' = [caller EXCEPT ![t].pc = "closing",
                                        ![t].cur = GLOBAL_BROWSER,
                                        ![t].probe = "failed"]
            /\ faults' = TRUE
            /\ UNCHANGED lock
    /\ UNCHANGED <<GLOBAL_BROWSER, browser, launches, icalls, kills>>
    /\ UNCHANGED not_bvars

\* Drop for BrowserProcess: child.kill(), child.wait().
BrowserProcess_drop(b) ==
    [browser[b] EXCEPT !.child = "reaped", !.handle = "cleaned"]

\* Drop for CustomTempDir: remove_dir_all with retries.
CustomTempDir_drop(r) == [r EXCEPT !.temp = "removed"]

\* A close_async that shuts the transport down and leaves the process alone.
close_async_keep(t, next) ==
    /\ browser' = [browser EXCEPT ![caller[t].cur].transport = "shutdown"]
    /\ Goto(t, next)

\* Browser::close_async up to the drop of the taken BrowserProcess:
\* transport.shutdown(), process.lock().take(), then Drop::drop.
close_async(t, next) ==
    LET b == caller[t].cur
    IN  /\ browser' = [browser EXCEPT ![b] =
              IF browser[b].handle = "owned"
              THEN [BrowserProcess_drop(b) EXCEPT !.transport = "shutdown"]
              ELSE [@ EXCEPT !.transport = "shutdown"]]
        /\ Goto(t, next)

\* ... and the fields of the dropped BrowserProcess: child, then _temp.
close_async_fields(t, next) ==
    LET b == caller[t].cur
    IN  /\ browser' = [browser EXCEPT ![b] =
              IF browser[b].handle = "cleaned" /\ browser[b].temp = "exists"
              THEN CustomTempDir_drop(@) ELSE @]
        /\ Goto(t, next)

\* let _ = b.close_async().await for the browser whose probe failed
instance_close_old(t) ==
    /\ At(t, "closing")
    /\ close_async(t, "closing_rm")
    /\ UNCHANGED <<GLOBAL_BROWSER, lock, launches, icalls, kills, faults>>
    /\ UNCHANGED not_bvars

instance_close_old_fields(t) ==
    /\ At(t, "closing_rm")
    /\ close_async_fields(t, "launch")
    /\ UNCHANGED <<GLOBAL_BROWSER, lock, launches, icalls, kills, faults>>
    /\ UNCHANGED not_bvars

\* .expect("Init global browser failed"): the task unwinds, the guard of the
\* mutex is dropped, the slot keeps what it held.
Panic(t) == caller' = [caller EXCEPT ![t].pc = "panicked", ![t].cur = 0]

\* Browser::launch: CustomTempDir::new
launch_temp(t, ok) ==
    /\ At(t, "launch")
    /\ IF ok
       THEN /\ launches' = launches + 1
            /\ browser' = [browser EXCEPT ![launches + 1].temp = "exists"]
            /\ caller' = [caller EXCEPT ![t].pc = "launch_spawn",
                                        ![t].cur = launches + 1]
            /\ UNCHANGED <<lock, faults>>
       ELSE /\ Panic(t)
            /\ lock' = ""
            /\ faults' = TRUE
            /\ UNCHANGED <<browser, launches>>
    /\ UNCHANGED <<GLOBAL_BROWSER, icalls, kills>>
    /\ UNCHANGED not_bvars

\* ... find_chrome, the free port, spawn, stderr.take(): an error here returns
\* before a child exists (or, for stderr, cannot happen with a piped stderr),
\* and drops temp.
launch_spawn(t, ok) ==
    /\ At(t, "launch_spawn")
    /\ LET b == caller[t].cur
       IN  IF ok
           THEN /\ browser' = [browser EXCEPT
                      ![b].child = "running",
                      ![b].handle = "local",
                      ![b].exe = find_chrome(caller[t].path)]
                /\ Goto(t, "launch_connect")
                /\ UNCHANGED <<lock, faults>>
           ELSE /\ browser' = [browser EXCEPT ![b] =
                      [CustomTempDir_drop(@) EXCEPT !.failed = TRUE]]
                /\ Panic(t)
                /\ lock' = ""
                /\ faults' = TRUE
    /\ UNCHANGED <<GLOBAL_BROWSER, launches, icalls, kills>>
    /\ UNCHANGED not_bvars

\* ... wait_for_ws(stderr).await? and Transport::new(&ws_url).await?: on an
\* error the locals go out of scope: child (a std::process::Child, whose drop
\* neither kills nor waits) and temp (whose drop removes the directory).
launch_connect(t, ok) ==
    /\ At(t, "launch_connect")
    /\ LET b == caller[t].cur
       IN  IF ok
           THEN /\ browser[b].child = "running"
                /\ browser' = [browser EXCEPT ![b].handle = "owned",
                                              ![b].transport = "open"]
                /\ Goto(t, "blank")
                /\ UNCHANGED <<lock, faults>>
           ELSE /\ browser' = [browser EXCEPT ![b] =
                      [CustomTempDir_drop(@) EXCEPT !.handle = "dropped",
                                                    !.failed = TRUE]]
                /\ Panic(t)
                /\ lock' = ""
                /\ faults' = TRUE
    /\ UNCHANGED <<GLOBAL_BROWSER, launches, icalls, kills>>
    /\ UNCHANGED not_bvars

\* Close the default blank page; every error is ignored.
instance_close_blank(t) ==
    /\ At(t, "blank")
    /\ browser' = [browser EXCEPT ![caller[t].cur].ready = TRUE]
    /\ Goto(t, "store")
    /\ UNCHANGED <<GLOBAL_BROWSER, lock, launches, icalls, kills, faults>>
    /\ UNCHANGED not_bvars

\* *lock = Some(b.clone()); b
instance_store(t) ==
    /\ At(t, "store")
    /\ GLOBAL_BROWSER' = caller[t].cur
    /\ caller' = [caller EXCEPT ![t].pc = "returned", ![t].ret = caller[t].cur]
    /\ lock' = ""
    /\ UNCHANGED <<browser, launches, icalls, kills, faults>>
    /\ UNCHANGED not_bvars

\* Browser::shutdown_global
shutdown_global(t) ==
    /\ caller[t].pc \in {"idle", "returned", "panicked"}
    /\ icalls' = icalls + 1
    /\ faults' = TRUE
    /\ caller' = [caller EXCEPT ![t] = [IdleCaller EXCEPT !.pc = "sd_waiting"]]
    /\ UNCHANGED <<GLOBAL_BROWSER, lock, browser, launches, kills>>
    /\ UNCHANGED not_bvars

\* A shutdown that looks at the slot and leaves the browser in it.
shutdown_global_peek(t) ==
    /\ At(t, "sd_waiting")
    /\ lock = ""
    /\ IF GLOBAL_BROWSER = 0
       THEN /\ Goto(t, "idle")
            /\ UNCHANGED lock
       ELSE /\ caller' = [caller EXCEPT ![t].pc = "sd_closing",
                                        ![t].cur = GLOBAL_BROWSER]
            /\ lock' = t
    /\ UNCHANGED <<GLOBAL_BROWSER, browser, launches, icalls, kills, faults>>
    /\ UNCHANGED not_bvars

\* let mut lock = GLOBAL_BROWSER.lock().await; lock.take()
shutdown_global_take(t) ==
    /\ At(t, "sd_waiting")
    /\ lock = ""
    /\ IF GLOBAL_BROWSER = 0
       THEN /\ Goto(t, "idle")
            /\ UNCHANGED lock
       ELSE /\ caller' = [caller EXCEPT ![t].pc = "sd_closing",
                                        ![t].cur = GLOBAL_BROWSER]
            /\ lock' = t
    /\ GLOBAL_BROWSER' = 0
    /\ UNCHANGED <<browser, launches, icalls, kills, faults>>
    /\ UNCHANGED not_bvars

shutdown_global_close(t) ==
    /\ At(t, "sd_closing")
    /\ close_async(t, "sd_rm")
    /\ UNCHANGED <<GLOBAL_BROWSER, lock, launches, icalls, kills, faults>>
    /\ UNCHANGED not_bvars

shutdown_global_return(t) ==
    /\ At(t, "sd_rm")
    /\ close_async_fields(t, "idle")
    /\ lock' = ""
    /\ UNCHANGED <<GLOBAL_BROWSER, launches, icalls, kills, faults>>
    /\ UNCHANGED not_bvars

\* A browser process dies without the library: it is killed, or it crashes.
KillOutOfBand(b) ==
    /\ browser[b].child = "running"
    /\ kills' = kills + 1
    /\ faults' = TRUE
    /\ browser' = [browser EXCEPT ![b].child = "exited"]
    /\ UNCHANGED <<GLOBAL_BROWSER, lock, caller, launches, icalls>>
    /\ UNCHANGED not_bvars

NextSingleton ==
    \/ \E t \in Tasks : icalls < MaxInstanceCalls /\ instance(t)
    \/ \E t \in Tasks : instance_lock(t)
    \/ \E t \in Tasks, alive \in BOOLEAN : instance_probe(t, alive)
    \/ \E t \in Tasks : instance_close_old(t)
    \/ \E t \in Tasks : instance_close_old_fields(t)
    \/ \E t \in Tasks, ok \in BOOLEAN :
          launches < MaxLaunches /\ launch_temp(t, ok)
    \/ \E t \in Tasks, ok \in BOOLEAN : launch_spawn(t, ok)
    \/ \E t \in Tasks, ok \in BOOLEAN : launch_connect(t, ok)
    \/ \E t \in Tasks : instance_close_blank(t)
    \/ \E t \in Tasks : instance_store(t)
    \/ \E t \in Tasks : icalls < MaxInstanceCalls /\ shutdown_global(t)
    \/ \E t \in Tasks : shutdown_global_take(t)
    \/ \E t \in Tasks : shutdown_global_close(t)
    \/ \E t \in Tasks : shutdown_global_return(t)
    \/ \E b \in Browsers : kills < MaxKills /\ KillOutOfBand(b)

SpecSingleton == Init /\ [][NextSingleton]_vars

\* The accessor called with and without a path.
NextPath ==
    \/ \E t \in Tasks : icalls < MaxPathCalls /\ instance(t)
    \/ \E t \in Tasks, path \in Paths :
          icalls < MaxPathCalls /\ instance_with_path(t, path)
    \/ \E t \in Tasks : instance_lock(t)
    \/ \E t \in Tasks, alive \in BOOLEAN : instance_probe(t, alive)
    \/ \E t \in Tasks : instance_close_old(t)
    \/ \E t \in Tasks : instance_close_old_fields(t)
    \/ \E t \in Tasks, ok \in BOOLEAN :
          launches < MaxPathLaunches /\ launch_temp(t, ok)
    \/ \E t \in Tasks, ok \in BOOLEAN : launch_spawn(t, ok)
    \/ \E t \in Tasks, ok \in BOOLEAN : launch_connect(t, ok)
    \/ \E t \in Tasks : instance_close_blank(t)
    \/ \E t \in Tasks : instance_store(t)

SpecPath == Init /\ [][NextPath]_vars

----------------------------------------------------------------------------
\* Screenshots: Element::screenshot_with_options (element.rs) and
\* Tab::screenshot (lib.rs), on one tab.

\* How one tab command ends for its caller: answered; written to the socket
\* and handled by the browser, but failed for the caller (a timeout, a reply
\* that is not a target message); or failed before anything was written.
Outcomes == {"ok", "lost", "unsent"}

Transparent(opts) == opts.omit_background /\ opts.format = "png"

ShotAt(where) == shot.pc = where

ShotGoto(where) == shot' = [shot EXCEPT !.pc = where]

\* `?` on an error: the call returns it.
ShotFail ==
    shot' = [shot EXCEPT !.pc = "returned", !.outcome = "Err",
                         !.failed_at = shot.pc]

\* The call starts; via is "element" or "tab".
screenshot(via, opts) ==
    /\ shot.pc \in {"idle", "returned"}
    /\ shots' = shots + 1
    /\ shot' = [pc |-> IF opts.viewport THEN "set_viewport"
                       ELSE IF via = "element" THEN "box_model"
                       ELSE "override",
                via |-> via, opts |-> opts, override_sent |-> FALSE,
                clear_sent |-> FALSE, outcome |-> "", failed_at |-> ""]
    /\ UNCHANGED tab_override
    /\ UNCHANGED not_svars

\* if let Some(ref viewport) = opts.viewport { set_viewport(viewport).await? }
shot_set_viewport(o) ==
    /\ ShotAt("set_viewport")
    /\ IF o = "ok"
       THEN ShotGoto(IF shot.via = "element" THEN "box_model" ELSE "override")
       ELSE ShotFail
    /\ UNCHANGED <<tab_override, shots>>
    /\ UNCHANGED not_svars

\* DOM.getBoxModel and serde_msg on its reply (element only)
shot_box_model(o) ==
    /\ ShotAt("box_model")
    /\ IF o = "ok" THEN ShotGoto("override") ELSE ShotFail
    /\ UNCHANGED <<tab_override, shots>>
    /\ UNCHANGED not_svars

\* Emulation.setDefaultBackgroundColorOverride {color: transparent}, with `?`
shot_override(o) ==
    /\ ShotAt("override")
    /\ IF Transparent(shot.opts)
       THEN /\ tab_override' = (tab_override \/ o # "unsent")
            /\ shot' = [shot EXCEPT
                  !.override_sent = (o # "unsent"),
                  !.pc = IF o = "ok" THEN "activate" ELSE "returned",
                  !.outcome = IF o = "ok" THEN "" ELSE "Err",
                  !.failed_at = IF o = "ok" THEN "" ELSE "override"]
       ELSE /\ o = "ok"
            /\ ShotGoto("activate")
            /\ UNCHANGED tab_override
    /\ UNCHANGED shots
    /\ UNCHANGED not_svars

\* activate().await?
shot_activate(o) ==
    /\ ShotAt("activate")
    /\ IF o = "ok" THEN ShotGoto("capture") ELSE ShotFail
    /\ UNCHANGED <<tab_override, shots>>
    /\ UNCHANGED not_svars

\* Page.captureScreenshot with `?` (element: and serde_msg(&res_cap)?)
shot_capture(o) ==
    /\ ShotAt("capture")
    /\ IF o = "ok" THEN ShotGoto("clear") ELSE ShotFail
    /\ UNCHANGED <<tab_override, shots>>
    /\ UNCHANGED not_svars

\* let _ = Emulation.setDefaultBackgroundColorOverride {} : the result is
\* ignored.
shot_clear(o) ==
    /\ ShotAt("clear")
    /\ IF Transparent(shot.opts)
       THEN /\ tab_override' = (tab_override /\ o = "unsent")
            /\ shot' = [shot EXCEPT !.clear_sent = TRUE, !.pc = "result"]
       ELSE /\ o = "ok"
            /\ ShotGoto("result")
            /\ UNCHANGED tab_override
    /\ UNCHANGED shots
    /\ UNCHANGED not_svars

\* data["result"]["data"].as_str() ... .context("No image data received")
shot_return(has_data) ==
    /\ ShotAt("result")
    /\ shot' = [shot EXCEPT !.pc = "returned",
                            !.outcome = IF has_data THEN "Ok" ELSE "Err"]
    /\ UNCHANGED <<tab_override, shots>>
    /\ UNCHANGED not_svars

CaptureOptions ==
    [format : {"png", "jpeg", "webp"}, omit_background : BOOLEAN,
     viewport : BOOLEAN]

NextShot ==
    \/ \E via \in {"element", "tab"}, opts \in CaptureOptions :
          shots < MaxShots /\ screenshot(via, opts)
    \/ \E o \in Outcomes : shot_set_viewport(o)
    \/ \E o \in Outcomes : shot_box_model(o)
    \/ \E o \in Outcomes : shot_override(o)
    \/ \E o \in Outcomes : shot_activate(o)
    \/ \E o \in Outcomes : shot_capture(o)
    \/ \E o \in Outcomes : shot_clear(o)
    \/ \E has_data \in BOOLEAN : shot_return(has_data)

SpecShot == Init /\ [][NextShot]_vars


----------------------------------------------------------------------------
\* Tab::new and Tab::close (tab.rs).

\* What a caller of Transport::send gets for a command whose result should
\* carry a string field: the field as a string; a result without the field;
\* a result whose field is not a string; or an error (the browser rejected the
\* command or did not answer, so the send timed out, or the actor is gone).
Replies == {"string", "missing", "not_string", "failed"}

TabStep(i, where, outcome) ==
    tabs' = [tabs EXCEPT ![i].pc = where, ![i].outcome = outcome]

\* Browser::new_tab -> Tab::new
Tab_new(i) ==
    /\ tabs[i].pc = "none"
    /\ tab_ops' = tab_ops + 1
    /\ TabStep(i, "create", "")
    /\ UNCHANGED not_avars

\* Target.createTarget; .get("targetId").context(..)?.as_str().unwrap()
Tab_new_create(i, r) ==
    /\ tabs[i].pc = "create"
    /\ tabs' = [tabs EXCEPT ![i] =
          IF r = "string"
          THEN [@ EXCEPT !.pc = "attach", !.target = "open",
                         !.created = TRUE]
          ELSE IF r = "not_string"
          THEN [@ EXCEPT !.pc = "gone", !.outcome = "Panic",
                         !.target = "open"]
          ELSE [@ EXCEPT !.pc = "gone", !.outcome = "Err"]]
    /\ UNCHANGED tab_ops
    /\ UNCHANGED not_avars

\* Target.attachToTarget; res.result["sessionId"].as_str().unwrap()
Tab_new_attach(i, r) ==
    /\ tabs[i].pc = "attach"
    /\ tabs' = [tabs EXCEPT ![i] =
          IF r = "string"
          THEN [@ EXCEPT !.pc = "attached", !.outcome = "Ok"]
          ELSE IF r = "failed"
          THEN [@ EXCEPT !.pc = "gone", !.outcome = "Err"]
          ELSE [@ EXCEPT !.pc = "gone", !.outcome = "Panic"]]
    /\ UNCHANGED tab_ops
    /\ UNCHANGED not_avars

\* Tab::close: Target.closeTarget through send_and_get_msg
Tab_close(i) ==
    /\ tabs[i].pc = "attached"
    /\ tab_ops' = tab_ops + 1
    /\ tabs' = [tabs EXCEPT ![i].pc = "closing", ![i].outcome = "",
                            ![i].was_closed = (tabs[i].target = "closed")]
    /\ UNCHANGED not_avars

\* ... .await?; Ok(()).  A wrapper addressed to the session of a closed
\* target is answered with an error-shaped reply, which resolves no waiter.
Tab_close_return(i, o) ==
    /\ tabs[i].pc = "closing"
    /\ tabs[i].target = "closed" => o # "ok"
    /\ tabs' = [tabs EXCEPT
          ![i].pc = "attached",
          ![i].outcome = IF o = "ok" THEN "Ok" ELSE "Err",
          ![i].target = IF o = "unsent" THEN @ ELSE "closed"]
    /\ UNCHANGED tab_ops
    /\ UNCHANGED not_avars

\* The target goes away on the browser side (the page is closed or crashes).
TargetClosed(i) ==
    /\ tabs[i].target = "open"
    /\ tabs' = [tabs EXCEPT ![i].target = "closed"]
    /\ UNCHANGED tab_ops
    /\ UNCHANGED not_avars

NextTab ==
    \/ \E i \in TabIds : tab_ops < MaxTabOps /\ Tab_new(i)
    \/ \E i \in TabIds, r \in Replies : Tab_new_create(i, r)
    \/ \E i \in TabIds, r \in Replies : Tab_new_attach(i, r)
    \/ \E i \in TabIds : tab_ops < MaxTabOps /\ Tab_close(i)
    \/ \E i \in TabIds, o \in Outcomes : Tab_close_return(i, o)
    \/ \E i \in TabIds : TargetClosed(i)

SpecTab == Init /\ [][NextTab]_vars


----------------------------------------------------------------------------
\* Tab::set_content (tab.rs): the Rust caller sends Runtime.evaluate with
\* awaitPromise and waits for the reply for 30 s; the expression is the
\* readiness script, which writes the content and polls the document.

\* Time passes.  The page's timers fire when they are due, so the clock does
\* not pass a due poll; animation frames come without a timer.  Nothing
\* bounds how late the Rust task is polled after its deadline.
Tick ==
    /\ set_content.pc # "idle"
    /\ clock < MaxClock
    /\ script.stage \in {"poll", "stability"} => clock < script.wake
    /\ script.stage \notin {"raf1", "raf2", "done"}
    /\ clock' = clock + PollInterval
    /\ UNCHANGED <<page, script, set_content>>
    /\ UNCHANGED not_rvars

\* set_content up to the await of send_and_get_msg: the message is handed
\* to the transport and the 30 s wait for the target message starts.
Tab_set_content(c) ==
    /\ set_content.pc = "idle"
    /\ set_content' = [set_content EXCEPT !.pc = "waiting", !.content = c,
                                          !.started = clock]
    /\ script' = [script EXCEPT !.stage = "sent"]
    /\ UNCHANGED <<clock, page>>
    /\ UNCHANGED not_rvars

\* The page starts the script: startTime is taken, the content is written
\* (document.open / write / close) and checkResources is called.
ScriptStart ==
    /\ script.stage = "sent"
    /\ clock - set_content.started <= MaxStartDelay
    /\ page' = [readyState |-> "loading", fonts |-> "pending",
                link |-> "pending", img |-> "pending"]
    /\ script' = [script EXCEPT !.stage = "poll", !.startTime = clock,
                                !.lastMutationTime = clock, !.wake = clock]
    /\ UNCHANGED <<clock, set_content>>
    /\ UNCHANGED not_rvars

\* resolve(true) through finish(): the observer is disconnected.
finish(s) ==
    [s EXCEPT !.observer = FALSE, !.promise = "resolved", !.stage = "done"]

\* The resources checkResources finds pending: a stylesheet link without a
\* sheet, an image that is not complete.
PendingLinksOnly(p) == p.link # "loaded"
Pending(p) == p.link # "loaded" \/ p.img # "complete"

\* One run of checkStabilityLoop at time now.
StabilityStep(s, now) ==
    LET elapsed == now - s.startTime
        quietTime == now - s.lastMutationTime
    IN  IF elapsed > TOTAL_TIMEOUT THEN finish(s)
        ELSE IF quietTime >= STABILITY_THRESHOLD /\ elapsed >= MIN_RENDER_TIME
             THEN [s EXCEPT !.stage = "raf1"]
             ELSE [s EXCEPT !.stage = "stability", !.wake = now + PollInterval]

\* checkResources up to `await document.fonts.ready`.
checkResources ==
    /\ script.stage = "poll"
    /\ clock >= script.wake
    /\ script' =
         IF clock - script.startTime > TOTAL_TIMEOUT
         THEN [script EXCEPT !.observer = FALSE, !.promise = "rejected",
                             !.stage = "done"]
         ELSE IF page.readyState # "complete"
              THEN [script EXCEPT !.wake = clock + PollInterval]
              ELSE [script EXCEPT !.stage = "fonts"]
    /\ UNCHANGED <<clock, page, set_content>>
    /\ UNCHANGED not_rvars

\* checkResources after the fonts are ready: a pending resource re-arms the
\* poll; otherwise startStabilityCheck installs the observer and runs
\* checkStabilityLoop once.
checkResources_resume ==
    /\ script.stage = "fonts"
    /\ page.fonts = "ready"
    /\ script' =
         IF Pending(page)
         THEN [script EXCEPT !.stage = "poll", !.wake = clock + PollInterval]
         ELSE StabilityStep([script EXCEPT !.observer = TRUE,
                                           !.lastMutationTime = clock], clock)
    /\ UNCHANGED <<clock, page, set_content>>
    /\ UNCHANGED not_rvars

\* A later run of checkStabilityLoop, from its timer.
checkStabilityLoop ==
    /\ script.stage = "stability"
    /\ clock >= script.wake
    /\ script' = StabilityStep(script, clock)
    /\ UNCHANGED <<clock, page, set_content>>
    /\ UNCHANGED not_rvars

\* The two animation frames before finish().
animationFrame ==
    /\ script.stage \in {"raf1", "raf2"}
    /\ script' = IF script.stage = "raf1" THEN [script EXCEPT !.stage = "raf2"]
                 ELSE finish(script)
    /\ UNCHANGED <<clock, page, set_content>>
    /\ UNCHANGED not_rvars

\* The MutationObserver's callback.
Mutation ==
    /\ script.observer
    /\ script.lastMutationTime # clock
    /\ script' = [script EXCEPT !.lastMutationTime = clock]
    /\ UNCHANGED <<clock, page, set_content>>
    /\ UNCHANGED not_rvars

\* The document makes progress; an image that never loads stays pending.
PageProgress(what) ==
    /\ page.readyState # "none"
    /\ \/ /\ what = "readyState" /\ page.readyState = "loading"
          /\ page' = [page EXCEPT !.readyState = "complete"]
       \/ /\ what = "fonts" /\ page.fonts = "pending"
          /\ page' = [page EXCEPT !.fonts = "ready"]
       \/ /\ what = "link" /\ page.link = "pending"
          /\ page' = [page EXCEPT !.link = "loaded"]
       \/ /\ what = "img" /\ page.img = "pending"
          /\ set_content.content = "loads"
          /\ page' = [page EXCEPT !.img = "complete"]
    /\ UNCHANGED <<clock, script, set_content>>
    /\ UNCHANGED not_rvars

\* Runtime.evaluate answers once the promise settled: the value, or
\* exceptionDetails for a rejection.  The actor hands the reply to the
\* waiter of get_target_msg if it still waits.
EvaluateReply ==
    /\ script.stage = "done"
    /\ script' = [script EXCEPT !.stage = "replied"]
    /\ set_content' =
         IF set_content.pc = "waiting"
         THEN [set_content EXCEPT !.reply =
                   IF script.promise = "resolved" THEN "value" ELSE "exception"]
         ELSE set_content
    /\ UNCHANGED <<clock, page>>
    /\ UNCHANGED not_rvars

\* The caller's task is polled: timeout() polls the receiver first, and any
\* target message makes send_and_get_msg return Ok, which set_content turns
\* into Ok(self); without a reply the elapsed deadline is the error.
Tab_set_content_return ==
    /\ set_content.pc = "waiting"
    /\ \/ /\ set_content.reply # "none"
          /\ set_content' = [set_content EXCEPT !.pc = "done", !.outcome = "Ok"]
       \/ /\ set_content.reply = "none"
          /\ clock - set_content.started >= TargetMsgTimeout
          /\ set_content' = [set_content EXCEPT !.pc = "done", !.outcome = "Err"]
    /\ UNCHANGED <<clock, page, script>>
    /\ UNCHANGED not_rvars

NextReady ==
    \/ \E c \in Contents : Tab_set_content(c)
    \/ ScriptStart
    \/ checkResources
    \/ checkResources_resume
    \/ checkStabilityLoop
    \/ animationFrame
    \/ Mutation
    \/ \E what \in {"readyState", "fonts", "link", "img"} : PageProgress(what)
    \/ EvaluateReply
    \/ Tab_set_content_return
    \/ Tick

SpecReady == Init /\ [][NextReady]_vars


----------------------------------------------------------------------------
\* Event waiters.  Tasks wait for the events of any session; the browser
\* emits events on its own.

\* Everything outside the transport and the events.
not_tvars_evars == <<bvars, svars, avars, rvars, cvars, dvars, fvars, pvars, hvars, wvars, nvars>>

\* Transport::wait_for_event(session_id, method), called by task t.
WaitMsgFor(t, session_id, method) ==
    [type |-> "WaitForEvent", session_id |-> session_id, method |-> method,
     tx |-> Tx(t, "ev", fut[t].ev.n + 1)]

Transport_wait_for_event_on(t, session_id, method) ==
    /\ pc[t] = "idle"
    /\ calls' = calls + 1
    /\ IF actor # "stopped"
       THEN /\ Len(command_rx) < ChanCap
            /\ command_rx' = Append(command_rx, WaitMsgFor(t, session_id, method))
            /\ fut' = [fut EXCEPT ![t].ev = NewFut(t, "ev", 0)]
            /\ pc' = [pc EXCEPT ![t] = "wait"]
            /\ result' = [result EXCEPT ![t] = "none"]
       ELSE /\ Finish(t, "ActorDropped")
            /\ UNCHANGED command_rx
    /\ UNCHANGED not_tvars
    /\ UNCHANGED <<GLOBAL_ID_COUNTER, pending_requests, event_listeners, actor,
                   ws_sink, ws_stream, ws_state, nav, dropped_replies>>

\* The browser emits an occurrence of an event of a session.
EventOccurs(session_id, method) ==
    /\ ws_state = "open"
    /\ Cardinality(events) < MaxEvents
    /\ LET n == Cardinality(events) + 1
       IN  /\ events' = events \cup {<<session_id, method, n>>}
           /\ ws_stream' = ws_stream \cup {TargetEvent(session_id, method, n)}
    /\ UNCHANGED navigated
    /\ UNCHANGED not_tvars_evars
    /\ UNCHANGED <<GLOBAL_ID_COUNTER, command_rx, pending_requests,
                   event_listeners, actor, ws_sink, ws_state, pc, fut, result,
                   nav, calls, dropped_replies>>

NextEvent ==
    \/ \E t \in Sessions, session_id \in Sessions, method \in EventMethods :
          calls < MaxEventCalls /\ Transport_wait_for_event_on(t, session_id, method)
    \/ \E t \in Sessions : Transport_wait_for_event_return(t)
    \/ \E session_id \in Sessions, method \in EventMethods :
          EventOccurs(session_id, method)
    \/ \E t \in Sessions : Timeout(t)
    \/ \E f \in ws_stream : ActorFrame(f)
    \/ ActorWaitForEvent

SpecEvent == Init /\ [][NextEvent]_vars


----------------------------------------------------------------------------
\* Tab::goto_no_wait followed by an explicit wait for the load event.

\* goto_no_wait: Page.navigate through send_and_get_msg, nothing else.
Tab_goto_no_wait(t) ==
    /\ pc[t] = "idle"
    /\ calls' = calls + 1
    /\ send_and_get_msg(t, "Page.navigate", "no_wait")
    /\ UNCHANGED not_tvars
    /\ UNCHANGED <<pending_requests, event_listeners, actor, ws_sink,
                   ws_stream, ws_state, nav, dropped_replies>>

Tab_goto_no_wait_return(t) ==
    /\ pc[t] = "no_wait"
    /\ JoinDone(t)
    /\ Finish(t, JoinResult(t))
    /\ navigated' = [navigated EXCEPT ![t] = (JoinResult(t) = "Ok")]
    /\ UNCHANGED events
    /\ UNCHANGED not_tvars_evars
    /\ UNCHANGED <<GLOBAL_ID_COUNTER, command_rx, pending_requests,
                   event_listeners, actor, ws_sink, ws_stream, ws_state, nav,
                   calls, dropped_replies>>

NextNoWait ==
    \/ \E t \in Sessions : calls < MaxNoWaitCalls /\ Tab_goto_no_wait(t)
    \/ \E t \in Sessions : Tab_goto_no_wait_return(t)
    \/ \E t \in Sessions :
          calls < MaxNoWaitCalls /\ navigated[t] /\ Transport_wait_for_event(t)
    \/ \E t \in Sessions : Transport_wait_for_event_return(t)
    \/ \E t \in Sessions : Timeout(t)
    \/ \E f \in ws_stream : ActorFrame(f)
    \/ ActorRequest
    \/ ActorListenTargetMessage
    \/ ActorWaitForEvent
    \/ \E c \in ws_sink, accept \in BOOLEAN : BrowserAnswer(c, accept)

SpecNoWait == Init /\ [][NextNoWait]_vars


----------------------------------------------------------------------------
\* Ids: concurrent callers draw ids from the one counter for direct commands
\* and for wrapped tab commands, and the actor registers their waiters.
NextIds ==
    \/ \E t \in Sessions, with_id \in BOOLEAN :
          calls < MaxIdCalls /\ Transport_send(t, with_id)
    \/ \E t \in Sessions : Transport_send_return(t)
    \/ \E t \in Sessions, m \in {"Runtime.evaluate", "Page.navigate"} :
          calls < MaxIdCalls /\ Tab_send_cmd(t, m)
    \/ \E t \in Sessions : Tab_send_cmd_return(t)
    \/ \E t \in Sessions : Timeout(t)
    \/ \E f \in ws_stream : ActorFrame(f)
    \/ ActorRequest
    \/ ActorListenTargetMessage
    \/ \E c \in ws_sink, accept \in BOOLEAN : BrowserAnswer(c, accept)

SpecIds == Init /\ [][NextIds]_vars


----------------------------------------------------------------------------
\* Browser::capture_html_with_options (browser.rs): new_tab, set_viewport if
\* the options carry one, set_content, find_element, screenshot, close.

\* `?` on a failed step: the call returns the error.
CaptureErr(t, step) ==
    capture' = [capture EXCEPT ![t].pc = "done", ![t].outcome = "Err",
                               ![t].value = step]

CaptureGoto(t, where) == capture' = [capture EXCEPT ![t].pc = where]

capture_html_with_options(t, viewport) ==
    /\ capture[t].pc \in {"idle", "done"}
    /\ captures' = captures + 1
    /\ capture' = [capture EXCEPT ![t] =
          [IdleCapture EXCEPT !.pc = "new_tab", !.viewport = viewport]]
    /\ UNCHANGED not_cvars

\* let tab = self.new_tab().await?
capture_new_tab(t, ok) ==
    /\ capture[t].pc = "new_tab"
    /\ IF ~ok THEN CaptureErr(t, "new_tab")
       ELSE IF capture[t].viewport THEN CaptureGoto(t, "set_viewport")
       ELSE CaptureGoto(t, "set_content")
    /\ UNCHANGED captures
    /\ UNCHANGED not_cvars

\* tab.set_viewport(viewport).await?
capture_set_viewport(t, ok) ==
    /\ capture[t].pc = "set_viewport"
    /\ IF ok THEN CaptureGoto(t, "set_content")
       ELSE CaptureErr(t, "set_viewport")
    /\ UNCHANGED captures
    /\ UNCHANGED not_cvars

\* tab.set_content(html).await?
capture_set_content(t, ok) ==
    /\ capture[t].pc = "set_content"
    /\ IF ok THEN CaptureGoto(t, "find_element")
       ELSE CaptureErr(t, "set_content")
    /\ UNCHANGED captures
    /\ UNCHANGED not_cvars

\* let el = tab.find_element(selector).await?
capture_find_element(t, ok) ==
    /\ capture[t].pc = "find_element"
    /\ IF ok THEN CaptureGoto(t, "screenshot")
       ELSE CaptureErr(t, "find_element")
    /\ UNCHANGED captures
    /\ UNCHANGED not_cvars

\* let shot = el.screenshot_with_options(opts).await?  (r = "" is an error)
capture_screenshot(t, r) ==
    /\ capture[t].pc = "screenshot"
    /\ IF r = "" THEN CaptureErr(t, "screenshot")
       ELSE capture' = [capture EXCEPT ![t].pc = "close", ![t].shot = r]
    /\ UNCHANGED captures
    /\ UNCHANGED not_cvars

\* A close whose failure is returned with `?`.
capture_close_propagate(t, r) ==
    /\ capture[t].pc = "close"
    /\ capture' = [capture EXCEPT ![t].pc = "done", ![t].close = r,
                                  ![t].outcome = IF r = "Ok" THEN "Ok" ELSE "Err",
                                  ![t].value = IF r = "Ok" THEN capture[t].shot
                                               ELSE "close"]
    /\ UNCHANGED captures
    /\ UNCHANGED not_cvars

\* let _ = tab.close().await; Ok(shot)
capture_close(t, r) ==
    /\ capture[t].pc = "close"
    /\ capture' = [capture EXCEPT ![t].pc = "done", ![t].close = r,
                                  ![t].outcome = "Ok",
                                  ![t].value = capture[t].shot]
    /\ UNCHANGED captures
    /\ UNCHANGED not_cvars

NextCapture ==
    \/ \E t \in Tasks, viewport \in BOOLEAN :
          captures < MaxCaptures /\ capture_html_with_options(t, viewport)
    \/ \E t \in Tasks, ok \in BOOLEAN : capture_new_tab(t, ok)
    \/ \E t \in Tasks, ok \in BOOLEAN : capture_set_viewport(t, ok)
    \/ \E t \in Tasks, ok \in BOOLEAN : capture_set_content(t, ok)
    \/ \E t \in Tasks, ok \in BOOLEAN : capture_find_element(t, ok)
    \/ \E t \in Tasks, r \in Images \cup {""} : capture_screenshot(t, r)
    \/ \E t \in Tasks, r \in {"Ok", "Err", "Timeout"} : capture_close(t, r)

SpecCapture == Init /\ [][NextCapture]_vars


----------------------------------------------------------------------------
\* Browsers owned by their callers: Browser::new, clone, close_async, drop.

\* Everything outside the supervisor and the removal attempts.
not_bvars_dvars == <<tvars, svars, avars, rvars, evars, cvars, fvars, pvars, hvars, wvars, nvars>>

\* Drop for CustomTempDir: remove_dir_all is called until it succeeds, at
\* most RemovalAttempts times; removed_at is the call that succeeds, 0 if
\* none does.
CustomTempDir_drop_attempts(r, removed_at) ==
    IF removed_at = 0 THEN r ELSE CustomTempDir_drop(r)

\* A removal that goes on after the last attempt of the code.
AttemptsMadeOneMore(removed_at) ==
    IF removed_at = 0 THEN RemovalAttempts + 1 ELSE removed_at

AttemptsMade(removed_at) ==
    IF removed_at = 0 THEN RemovalAttempts ELSE removed_at

\* The tasks that hold a clone of browser b.
Holders(b) ==
    {t \in Tasks : caller[t].ret = b
                   /\ caller[t].pc \in {"returned", "ca_rm", "closed"}}

\* Browser::new: launch, outside the global slot.
Browser_new(t) ==
    /\ caller[t].pc \in {"idle", "closed", "dropped"}
    /\ caller' = [caller EXCEPT ![t] = [IdleCaller EXCEPT !.pc = "launch"]]
    /\ UNCHANGED <<GLOBAL_BROWSER, lock, browser, launches, icalls, kills,
                   faults>>
    /\ UNCHANGED not_bvars

\* launch returned Ok(Self { transport, process }).
Browser_new_return(t) ==
    /\ At(t, "blank")
    /\ caller' = [caller EXCEPT ![t].pc = "returned", ![t].ret = caller[t].cur]
    /\ UNCHANGED <<GLOBAL_BROWSER, lock, browser, launches, icalls, kills,
                   faults>>
    /\ UNCHANGED not_bvars

\* #[derive(Clone)]: another task receives a clone.
Browser_clone(t, to) ==
    /\ At(t, "returned")
    /\ At(to, "idle")
    /\ caller' = [caller EXCEPT ![to] =
          [IdleCaller EXCEPT !.pc = "returned", !.cur = caller[t].ret,
                             !.ret = caller[t].ret]]
    /\ UNCHANGED <<GLOBAL_BROWSER, lock, browser, launches, icalls, kills,
                   faults>>
    /\ UNCHANGED not_bvars

\* browser.close_async(): shutdown, take, and the drop of the process ...
\* The guard of self.process is held until the taken BrowserProcess and its
\* fields are dropped, so a close waits for a teardown in progress.
Browser_close_async(t) ==
    /\ At(t, "returned")
    /\ \A u \in Tasks :
          ~(caller[u].pc = "ca_rm" /\ caller[u].cur = caller[t].cur)
    /\ close_async(t, "ca_rm")
    /\ UNCHANGED <<GLOBAL_BROWSER, lock, launches, icalls, kills, faults>>
    /\ UNCHANGED not_bvars

\* ... the drop of its _temp, and Ok(()).
Browser_close_async_return(t, removed_at) ==
    /\ At(t, "ca_rm")
    /\ LET b == caller[t].cur
       IN  IF /\ browser[b].handle = "cleaned"
              /\ browser[b].temp = "exists"
              /\ attempts[b] = 0
           THEN /\ browser' = [browser EXCEPT ![b] =
                                  CustomTempDir_drop_attempts(@, removed_at)]
                /\ attempts' = [attempts EXCEPT ![b] = AttemptsMade(removed_at)]
           ELSE /\ removed_at = 1
                /\ UNCHANGED <<browser, attempts>>
    /\ Goto(t, "closed")
    /\ UNCHANGED <<GLOBAL_BROWSER, lock, launches, icalls, kills, faults>>
    /\ UNCHANGED not_bvars_dvars

\* A drop of a handle that owns the process itself instead of sharing it: it
\* tears the process down whoever else holds a clone.
Browser_drop_unshared(t, removed_at) ==
    /\ caller[t].pc \in {"returned", "closed"}
    /\ LET b == caller[t].ret
       IN  IF browser[b].handle = "owned"
           THEN /\ browser' = [browser EXCEPT ![b] =
                      CustomTempDir_drop_attempts(BrowserProcess_drop(b),
                                                  removed_at)]
                /\ attempts' = [attempts EXCEPT ![b] = AttemptsMade(removed_at)]
           ELSE /\ removed_at = 1
                /\ UNCHANGED <<browser, attempts>>
    /\ Goto(t, "dropped")
    /\ UNCHANGED <<GLOBAL_BROWSER, lock, launches, icalls, kills, faults>>
    /\ UNCHANGED not_bvars_dvars

\* A clone goes out of scope.  The last one drops the Arc, and with it a
\* BrowserProcess that was not taken: Drop for BrowserProcess, then its
\* fields.
Browser_drop(t, removed_at) ==
    /\ caller[t].pc \in {"returned", "closed"}
    /\ LET b == caller[t].ret
       IN  IF Holders(b) = {t} /\ browser[b].handle = "owned"
           THEN /\ browser' = [browser EXCEPT ![b] =
                      CustomTempDir_drop_attempts(BrowserProcess_drop(b),
                                                  removed_at)]
                /\ attempts' = [attempts EXCEPT ![b] = AttemptsMade(removed_at)]
           ELSE /\ removed_at = 1
                /\ UNCHANGED <<browser, attempts>>
    /\ Goto(t, "dropped")
    /\ UNCHANGED <<GLOBAL_BROWSER, lock, launches, icalls, kills, faults>>
    /\ UNCHANGED not_bvars_dvars

NextOwned ==
    \/ \E t \in Tasks : launches < MaxOwnedLaunches /\ Browser_new(t)
    \/ \E t \in Tasks : launches < MaxOwnedLaunches /\ launch_temp(t, TRUE)
    \/ \E t \in Tasks : launch_spawn(t, TRUE)
    \/ \E t \in Tasks : launch_connect(t, TRUE)
    \/ \E t \in Tasks : Browser_new_return(t)
    \/ \E t, to \in Tasks : Browser_clone(t, to)
    \/ \E t \in Tasks : Browser_close_async(t)
    \/ \E t \in Tasks, removed_at \in 0..RemovalAttempts :
          Browser_close_async_return(t, removed_at)
    \/ \E t \in Tasks, removed_at \in 0..RemovalAttempts :
          Browser_drop(t, removed_at)
    \/ \E b \in Browsers : kills < MaxKills /\ KillOutOfBand(b)

SpecOwned == Init /\ [][NextOwned]_vars

\* The task inside close_async is polled until the drop has run.
LiveSpecOwned ==
    /\ SpecOwned
    /\ \A t \in Tasks :
          WF_vars(\E removed_at \in 0..RemovalAttempts :
                      Browser_close_async_return(t, removed_at))


----------------------------------------------------------------------------
\* Tab::find_element (tab.rs) and Element::new (element.rs): DOM.getDocument,
\* DOM.querySelector, DOM.describeNode.

FindEnd(i, outcome, error) ==
    find' = [find EXCEPT ![i].pc = "done", ![i].outcome = outcome,
                         ![i].error = error]

\* matches: whether the selector matches a node of the document.
Tab_find_element(i, matches) ==
    /\ find[i].pc \in {"idle", "done"}
    /\ finds' = finds + 1
    /\ find' = [find EXCEPT ![i] =
          [IdleFind EXCEPT !.pc = "getDocument", !.matches = matches]]
    /\ UNCHANGED not_fvars

\* DOM.getDocument: `?` on the call, then as_u64().unwrap() on the root id.
find_getDocument(i, r) ==
    /\ find[i].pc = "getDocument"
    /\ IF r = "failed" THEN FindEnd(i, "Err", "send_and_get_msg")
       ELSE IF r = "missing" THEN FindEnd(i, "Panic", "unwrap")
       ELSE find' = [find EXCEPT ![i].pc = "querySelector"]
    /\ UNCHANGED finds
    /\ UNCHANGED not_fvars

\* DOM.querySelector: the browser answers a match with the node's id, a miss
\* with nodeId 0 or with a reply that carries no nodeId.  Only a reply
\* without a numeric nodeId is taken for "Element not found".
find_querySelector(i, r) ==
    /\ find[i].pc = "querySelector"
    /\ r \in (IF find[i].matches THEN {"failed", "node"}
              ELSE {"failed", "missing", "zero"})
    /\ IF r = "failed" THEN FindEnd(i, "Err", "send_and_get_msg")
       ELSE IF r = "missing" THEN FindEnd(i, "Err", "Element not found")
       ELSE find' = [find EXCEPT ![i].pc = "describeNode",
                                 ![i].node_id = IF r = "zero" THEN 0 ELSE 7]
    /\ UNCHANGED finds
    /\ UNCHANGED not_fvars

\* Element::new: DOM.describeNode; the browser knows no node 0, and its
\* error reply carries no backendNodeId.
Element_new(i, r) ==
    /\ find[i].pc = "describeNode"
    /\ r \in (IF find[i].node_id = 0 THEN {"failed", "missing"}
              ELSE {"failed", "missing", "node"})
    /\ IF r = "failed" THEN FindEnd(i, "Err", "send_and_get_msg")
       ELSE IF r = "missing" THEN FindEnd(i, "Err", "Missing backendNodeId")
       ELSE FindEnd(i, "Element", "")
    /\ UNCHANGED finds
    /\ UNCHANGED not_fvars

NextFind ==
    \/ \E i \in TabIds, matches \in BOOLEAN :
          finds < MaxFinds /\ Tab_find_element(i, matches)
    \/ \E i \in TabIds, r \in {"failed", "missing", "node"} :
          find_getDocument(i, r)
    \/ \E i \in TabIds, r \in {"failed", "missing", "zero", "node"} :
          find_querySelector(i, r)
    \/ \E i \in TabIds, r \in {"failed", "missing", "node"} : Element_new(i, r)

SpecFind == Init /\ [][NextFind]_vars


----------------------------------------------------------------------------
\* The clip of Page.captureScreenshot: Element::screenshot_with_options
\* (element.rs) and Tab::screenshot (lib.rs).

\* opts.viewport: 0 is None, else the device_scale_factor of the viewport.
Viewports == 0..MaxScale

\* Values of an entry of the border quad of DOM.getBoxModel.
Coords == {None, Some(4), Some(12)}

\* Border quads: entries 0 and 2 vary; the last one is the reply without a
\* border quad, where every index yields Null.
Borders ==
    {[k \in 0..7 |-> IF k = 0 THEN q[1] ELSE IF k = 2 THEN q[2]
                     ELSE IF k = 5 THEN Some(12) ELSE Some(0)] :
        q \in Coords \X Coords}
    \cup {[k \in 0..7 |-> None]}

\* opts.clip of a tab capture.
ClipRegions ==
    [x : {0, 4}, y : {0}, width : {8}, height : {8}, scale : {1, 2}]

\* as_f64().unwrap_or(0.0)
as_f64_unwrap_or_0(v) == IF IsSome(v) THEN Get(v) ELSE 0

\* A clip taken from the border quad and multiplied by the scale factor of
\* the viewport.
ElementClipScaled(border, viewport) ==
    LET S == IF viewport = 0 THEN 1 ELSE viewport
    IN  [x |-> S * as_f64_unwrap_or_0(border[0]),
         y |-> S * as_f64_unwrap_or_0(border[1]),
         width |-> S * (as_f64_unwrap_or_0(border[2])
                        - as_f64_unwrap_or_0(border[0])),
         height |-> S * (as_f64_unwrap_or_0(border[5])
                         - as_f64_unwrap_or_0(border[1])),
         scale |-> 1]

\* "clip": { "x": x, "y": y, "width": w, "height": h, "scale": 1.0 }
ElementClip(border, viewport) ==
    [x |-> as_f64_unwrap_or_0(border[0]),
     y |-> as_f64_unwrap_or_0(border[1]),
     width |-> as_f64_unwrap_or_0(border[2]) - as_f64_unwrap_or_0(border[0]),
     height |-> as_f64_unwrap_or_0(border[5]) - as_f64_unwrap_or_0(border[1]),
     scale |-> 1]

\* Element::screenshot_with_options(opts)
Element_screenshot_with_options(viewport) ==
    /\ clip_call.pc \in {"idle", "returned"}
    /\ clip_call' = [pc |-> IF viewport # 0 THEN "set_viewport"
                            ELSE "box_model",
                     via |-> "element", viewport |-> viewport, clip |-> None]
    /\ UNCHANGED <<latest, earlier>>
    /\ UNCHANGED not_pvars

\* Tab::screenshot(opts)
Tab_screenshot(viewport, clip) ==
    /\ clip_call.pc \in {"idle", "returned"}
    /\ clip_call' = [pc |-> IF viewport # 0 THEN "set_viewport" ELSE "params",
                     via |-> "tab", viewport |-> viewport, clip |-> clip]
    /\ UNCHANGED <<latest, earlier>>
    /\ UNCHANGED not_pvars

\* if let Some(ref viewport) = opts.viewport { set_viewport(viewport).await? }
clip_set_viewport(ok) ==
    /\ clip_call.pc = "set_viewport"
    /\ clip_call' = [clip_call EXCEPT !.pc =
          IF ~ok THEN "returned"
          ELSE IF clip_call.via = "element" THEN "box_model" ELSE "params"]
    /\ UNCHANGED <<latest, earlier>>
    /\ UNCHANGED not_pvars

\* Page.captureScreenshot is placed with these params; the request placed
\* before it is kept for comparison, or the one kept so far is.
Place(request) ==
    /\ latest' = Some(request)
    /\ earlier' \in {earlier, latest}
    /\ clip_call' = [clip_call EXCEPT !.pc = "returned"]

\* DOM.getBoxModel answered with a border quad (or failed), then the params
\* of the capture request.
clip_box_model(ok, border) ==
    /\ clip_call.pc = "box_model"
    /\ IF ok
       THEN Place([via |-> "element", viewport |-> clip_call.viewport,
                   input |-> border,
                   clip |-> Some(ElementClip(border, clip_call.viewport))])
       ELSE /\ clip_call' = [clip_call EXCEPT !.pc = "returned"]
            /\ UNCHANGED <<latest, earlier>>
    /\ UNCHANGED not_pvars

\* if let Some(ref clip) = opts.clip { params["clip"] = json!({...}) }
Tab_screenshot_params ==
    /\ clip_call.pc = "params"
    /\ Place([via |-> "tab", viewport |-> clip_call.viewport,
              input |-> clip_call.clip, clip |-> clip_call.clip])
    /\ UNCHANGED not_pvars

NextClip ==
    \/ \E viewport \in Viewports : Element_screenshot_with_options(viewport)
    \/ \E viewport \in Viewports, clip \in {None} \cup {Some(c) : c \in ClipRegions} :
          Tab_screenshot(viewport, clip)
    \/ \E ok \in BOOLEAN : clip_set_viewport(ok)
    \/ \E ok \in BOOLEAN, border \in Borders : clip_box_model(ok, border)
    \/ Tab_screenshot_params

SpecClip == Init /\ [][NextClip]_vars


----------------------------------------------------------------------------
\* Browser::find_chrome (browser.rs): where the executable is looked for.

\* What a call finds on the machine.  custom: the path passed by the caller
\* ("none", or whether it exists); CHROME: the variable is set; known: one of
\* the platform's install paths exists; registry: an App Paths key is
\* readable and whether the path it names exists; which[i]: the lookup of
\* the i-th command name on PATH ("none", a plain path, a path inside a
\* flatpak or snap mount, a link that resolves into one).
Machines ==
    [os : {"windows", "macos", "linux"},
     custom : {"none", "exists", "missing"},
     CHROME : BOOLEAN,
     known : BOOLEAN,
     registry : {"none", "missing", "exists"},
     which : [1..MaxApps -> {"none", "plain", "flatpak", "link"}]]

FoundAt(source, app) == [ok |-> TRUE, source |-> source, app |-> app]

NotFound(source) == [ok |-> FALSE, source |-> source, app |-> 0]

\* for app in apps { if let Ok(p) = which(app) { ... continue ... return Ok(p) } }
which_loop(e) ==
    LET hits == {i \in 1..MaxApps : e.which[i] = "plain"}
    IN  IF hits = {} THEN NotFound("all")
        ELSE FoundAt("path", CHOOSE i \in hits : \A j \in hits : i <= j)

\* fn find_chrome(custom_path: Option<PathBuf>) -> Result<PathBuf>
Browser_find_chrome(e) ==
    IF e.custom # "none"
    THEN IF e.custom = "exists" THEN FoundAt("custom", 0)
         ELSE NotFound("custom")
    ELSE IF e.CHROME THEN FoundAt("env", 0)
    ELSE IF e.known THEN FoundAt("known", 0)
    ELSE IF e.os = "windows" /\ e.registry = "exists"
         THEN FoundAt("registry", 0)
    ELSE which_loop(e)

\* A call of find_chrome on some machine.
find_chrome_call(e) ==
    /\ chrome.pc = "idle"
    /\ chrome' = [pc |-> "done", env |-> e, ret |-> Browser_find_chrome(e)]
    /\ UNCHANGED not_hvars

NextChrome == \E e \in Machines : find_chrome_call(e)

SpecChrome == Init /\ [][NextChrome]_vars


----------------------------------------------------------------------------
\* Browser::wait_for_ws (browser.rs, and the variant in lib.rs): the debug
\* URL is read from the error stream of the child.

\* Lines of the error stream: two lines that announce a debug URL, a line of
\* another kind, and bytes that are not UTF-8 (reading them yields Err).
Lines == {"ws1", "ws2", "log", "bad"}

\* The two files that define wait_for_ws.
Sources == {"browser.rs", "lib.rs"}

\* A pattern that takes every readable line for the announcement.
re_captures_any(l) == IF l # "bad" THEN Some(l) ELSE None

\* re.captures(&l) for "listening on (.*/devtools/browser/.*)\s*$": the URL.
re_captures(l) == IF l \in {"ws1", "ws2"} THEN Some(l) ELSE None

WsOk(url) == [ok |-> TRUE, value |-> url]

WsErr(e) == [ok |-> FALSE, value |-> e]

\* The child was spawned with stderr piped and wait_for_ws(stderr) is called:
\* the reader starts on the blocking pool, the caller awaits the outcome.
\* bound tells whether the child could bind the debug port it was given.
wait_for_ws(src, bound) ==
    /\ wcall.pc = "idle"
    /\ wcall' = [pc |-> "waiting", bound |-> bound, ret |-> <<>>]
    /\ stderr' = [lines |-> <<>>, open |-> TRUE, written |-> 0]
    /\ reader' = [src |-> src, pc |-> "reading", found |-> FALSE,
                  tx |-> src = "browser.rs", consumed |-> <<>>]
    /\ UNCHANGED sent
    /\ UNCHANGED not_wvars

\* The child writes a line; it announces the URL only after it bound the
\* port.  Nothing can be written once the read end is closed.
ChildWrites(l) ==
    /\ stderr.open
    /\ reader.pc = "reading"
    /\ re_captures(l) # None => wcall.bound
    /\ stderr' = [stderr EXCEPT !.lines = Append(@, l), !.written = @ + 1]
    /\ UNCHANGED <<reader, sent, wcall>>
    /\ UNCHANGED not_wvars

\* The child exits or closes its error stream.
ChildCloses ==
    /\ stderr.open
    /\ stderr' = [stderr EXCEPT !.open = FALSE]
    /\ UNCHANGED <<reader, sent, wcall>>
    /\ UNCHANGED not_wvars

\* if let Some(tx) = tx.take() { let _ = tx.send(outcome); }
tx_take_send(outcome) ==
    IF reader.tx THEN Append(sent, outcome) ELSE sent

\* browser.rs: one turn of `for line in reader.lines()`, which blocks while
\* the stream is open and empty, and the code after the loop.
reader_lines ==
    /\ reader.pc = "reading"
    /\ reader.src = "browser.rs"
    /\ IF stderr.lines = <<>>
       THEN /\ ~stderr.open
            /\ sent' = IF ~reader.found THEN tx_take_send(WsErr("not found"))
                       ELSE sent
            /\ reader' = [reader EXCEPT !.pc = "ended",
                             !.tx = IF ~reader.found THEN FALSE ELSE @]
            /\ UNCHANGED stderr
       ELSE LET l == Head(stderr.lines)
                hit == ~reader.found /\ IsSome(re_captures(l))
            IN  /\ stderr' = [stderr EXCEPT !.lines = Tail(@)]
                /\ IF l = "bad"
                   THEN /\ sent' = IF ~reader.found
                                   THEN tx_take_send(WsErr("not found"))
                                   ELSE sent
                        /\ reader' = [reader EXCEPT !.pc = "ended",
                              !.tx = IF ~reader.found THEN FALSE ELSE @,
                              !.consumed = Append(@, l)]
                   ELSE /\ sent' = IF hit
                                   THEN tx_take_send(WsOk(Get(re_captures(l))))
                                   ELSE sent
                        /\ reader' = [reader EXCEPT
                              !.found = @ \/ hit,
                              !.tx = IF hit THEN FALSE ELSE @,
                              !.consumed = Append(@, l)]
    /\ UNCHANGED wcall
    /\ UNCHANGED not_wvars

\* lib.rs: one turn of the loop, which returns from the closure at the first
\* match and at a read error, and the Err after the loop.
reader_lines_lib ==
    /\ reader.pc = "reading"
    /\ reader.src = "lib.rs"
    /\ IF stderr.lines = <<>>
       THEN /\ ~stderr.open
            /\ sent' = Append(sent, WsErr("not found"))
            /\ reader' = [reader EXCEPT !.pc = "ended"]
            /\ UNCHANGED stderr
       ELSE LET l == Head(stderr.lines)
            IN  /\ stderr' = [stderr EXCEPT !.lines = Tail(@)]
                /\ IF l = "bad"
                   THEN /\ sent' = Append(sent, WsErr("io"))
                        /\ reader' = [reader EXCEPT !.pc = "ended",
                                         !.consumed = Append(@, l)]
                   ELSE IF IsSome(re_captures(l))
                   THEN /\ sent' = Append(sent, WsOk(Get(re_captures(l))))
                        /\ reader' = [reader EXCEPT !.pc = "ended",
                                         !.found = TRUE,
                                         !.consumed = Append(@, l)]
                   ELSE /\ sent' = sent
                        /\ reader' = [reader EXCEPT !.consumed = Append(@, l)]
    /\ UNCHANGED wcall
    /\ UNCHANGED not_wvars

\* rx.await (browser.rs) or the JoinHandle (lib.rs) yields the outcome.
wait_for_ws_return ==
    /\ wcall.pc = "waiting"
    /\ sent # <<>>
    /\ wcall' = [wcall EXCEPT !.pc = "returned", !.ret = Some(sent[1])]
    /\ UNCHANGED <<stderr, reader, sent>>
    /\ UNCHANGED not_wvars

NextWs ==
    \/ \E src \in Sources, bound \in BOOLEAN : wait_for_ws(src, bound)
    \/ \E l \in Lines : stderr.written < MaxLines /\ ChildWrites(l)
    \/ ChildCloses
    \/ reader_lines
    \/ reader_lines_lib
    \/ wait_for_ws_return

SpecWs == Init /\ [][NextWs]_vars

\* The blocking pool runs the reader and the runtime polls the caller; the
\* child is not obliged to write or to exit.
LiveSpecWs ==
    /\ SpecWs
    /\ WF_vars(reader_lines)
    /\ WF_vars(reader_lines_lib)
    /\ WF_vars(wait_for_ws_return)


----------------------------------------------------------------------------
\* Profile directories (browser.rs): CustomTempDir::new names the directory
\* after the second and six random characters, launch passes it to the child
\* as --user-data-dir.

\* Outcomes of the six random characters.
Suffixes == {"aaaaaa", "bbbbbb"}

\* Positions at which the child of a launch is running with its directory.
ChildRuns == {"spawned", "launched", "orphan"}

\* CustomTempDir::new(base, "cdp-shot"): create_dir_all(base)?, the name,
\* create_dir(path)?, which fails when the path exists.  ok = FALSE is
\* another I/O error.  On Err launch returns before anything is spawned.
CustomTempDir_new(l, suffix, ok) ==
    LET path == <<second, suffix>>
    IN  /\ dir_launch[l].pc = "idle"
        /\ IF ok /\ path \notin fs_dirs
           THEN /\ fs_dirs' = fs_dirs \cup {path}
                /\ dir_launch' = [dir_launch EXCEPT ![l] =
                                     [pc |-> "temp", path |-> path]]
           ELSE /\ dir_launch' = [dir_launch EXCEPT ![l].pc = "failed"]
                /\ UNCHANGED fs_dirs
        /\ UNCHANGED second
        /\ UNCHANGED not_nvars

\* Drop for CustomTempDir: the directory is removed unless every attempt
\* fails.
remove_dir_all(l, removed) ==
    IF removed THEN fs_dirs \ {dir_launch[l].path} ELSE fs_dirs

\* find_chrome, the port, cmd.args(..).spawn(): the child starts with
\* --user-data-dir=temp.path, or launch returns Err and drops temp.
Command_spawn(l, ok, removed) ==
    /\ dir_launch[l].pc = "temp"
    /\ IF ok
       THEN /\ dir_launch' = [dir_launch EXCEPT ![l].pc = "spawned"]
            /\ UNCHANGED fs_dirs
       ELSE /\ dir_launch' = [dir_launch EXCEPT ![l].pc = "failed"]
            /\ fs_dirs' = remove_dir_all(l, removed)
    /\ UNCHANGED second
    /\ UNCHANGED not_nvars

\* wait_for_ws(stderr).await? and Transport::new(&ws_url).await?: Ok(Self)
\* owns child and temp; on Err both locals are dropped, temp removes the
\* directory and the Child is neither killed nor waited for.
launch_return(l, ok, removed) ==
    /\ dir_launch[l].pc = "spawned"
    /\ IF ok
       THEN /\ dir_launch' = [dir_launch EXCEPT ![l].pc = "launched"]
            /\ UNCHANGED fs_dirs
       ELSE /\ dir_launch' = [dir_launch EXCEPT ![l].pc = "orphan"]
            /\ fs_dirs' = remove_dir_all(l, removed)
    /\ UNCHANGED second
    /\ UNCHANGED not_nvars

\* Drop for BrowserProcess (kill, wait), then Drop for its _temp.
BrowserProcess_teardown(l, removed) ==
    /\ dir_launch[l].pc = "launched"
    /\ dir_launch' = [dir_launch EXCEPT ![l].pc = "closed"]
    /\ fs_dirs' = remove_dir_all(l, removed)
    /\ UNCHANGED second
    /\ UNCHANGED not_nvars

\* A child that nobody owns exits on its own.
OrphanExits(l) ==
    /\ dir_launch[l].pc = "orphan"
    /\ dir_launch' = [dir_launch EXCEPT ![l].pc = "exited"]
    /\ UNCHANGED <<second, fs_dirs>>
    /\ UNCHANGED not_nvars

\* chrono::Local::now() moves on to the next second.
SecondPasses ==
    /\ second < MaxSeconds
    /\ second' = second + 1
    /\ UNCHANGED <<fs_dirs, dir_launch>>
    /\ UNCHANGED not_nvars

NextDirs ==
    \/ \E l \in 1..MaxDirLaunches, suffix \in Suffixes, ok \in BOOLEAN :
          CustomTempDir_new(l, suffix, ok)
    \/ \E l \in 1..MaxDirLaunches, ok, removed \in BOOLEAN :
          Command_spawn(l, ok, removed)
    \/ \E l \in 1..MaxDirLaunches, ok, removed \in BOOLEAN :
          launch_return(l, ok, removed)
    \/ \E l \in 1..MaxDirLaunches, removed \in BOOLEAN :
          BrowserProcess_teardown(l, removed)
    \/ \E l \in 1..MaxDirLaunches : OrphanExits(l)
    \/ SecondPasses

SpecDirs == Init /\ [][NextDirs]_vars

----------------------------------------------------------------------------
\* C1: a waiter registered for id N is only ever resolved with a frame whose
\* top-level or embedded id is N, and that frame answers a request (or is an
\* event of the session) of the caller that holds the waiter.
NoCrossDelivery ==
    \A t \in Sessions :
        /\ \A k \in {"send", "recv"} :
              fut[t][k].st = "ok" =>
                  /\ fut[t][k].got.id = fut[t][k].id
                  /\ fut[t][k].got.owner = t
        /\ fut[t].ev.st = "ok" => fut[t].ev.got.owner = t

\* Two tabs hold a delivered embedded reply at the same time.
TwoTabsAnswered ==
    \A t \in Sessions : fut[t].recv.st = "ok" /\ fut[t].send.st = "ok"

\* C2: while a caller waits for the embedded reply of a wrapper that has been
\* written to the socket, its waiter for the inner id is registered; and the
\* actor never discards the embedded reply a caller is waiting for.
ListenerRegisteredBeforeWrite ==
    /\ \A c \in ws_sink :
          (/\ IsSome(c.inner)
           /\ fut[c.owner].recv.st = "wait"
           /\ fut[c.owner].recv.id = Get(c.inner).id)
          => Get(c.inner).id \in DOMAIN pending_requests
    /\ \A t \in Sessions :
          fut[t].recv.st = "wait" => fut[t].recv.id \notin dropped_replies

\* C3: every call to send, get_target_msg and wait_for_event that has started
\* eventually returns to its caller, given that timers fire.
EveryCallReturns ==
    \A t \in Sessions : (pc[t] # "idle") ~> (pc[t] = "idle")

\* C4: while goto (reload) waits for the reply to a navigation command that
\* has been written to the socket, its load-event waiter is registered.
LoadWaiterRegisteredBeforeNavigate ==
    \A c \in ws_sink :
        (/\ IsSome(c.inner)
         /\ Get(c.inner).method \in NavMethods
         /\ pc[c.owner] = "goto_navigate"
         /\ fut[c.owner].recv.id = Get(c.inner).id)
        => /\ <<c.sessionId, LoadEvent>> \in DOMAIN event_listeners
           /\ \E tx \in Range(event_listeners[<<c.sessionId, LoadEvent>>]) :
                 tx.t = c.owner

\* C5: when the process of the browser in the slot died outside the library
\* before instance() was called, the call does not return that browser: what
\* it returns was launched anew, is stored in the slot, has its blank page
\* step behind it and its transport open, and its process runs unless that
\* one died outside the library as well.
FreshBrowserAfterKill ==
    [][\A t \in Tasks :
          (/\ caller[t].pc # "returned"
           /\ caller'[t].pc = "returned"
           /\ caller[t].slot_dead # 0)
          => LET b == caller'[t].ret
             IN  /\ b # caller[t].slot_dead
                 /\ GLOBAL_BROWSER' = b
                 /\ browser'[b].ready
                 /\ browser'[b].transport = "open"
                 /\ browser'[b].child \in {"running", "exited"}
                 /\ browser'[b].child = "exited" => kills' > 1]_vars

\* instance() was called with a dead browser in the slot and has returned
\* another one, whose process runs, while the old one was reaped.
ReturnedFreshBrowser ==
    \E t \in Tasks :
        /\ caller[t].pc = "returned"
        /\ caller[t].slot_dead # 0
        /\ caller[t].ret # caller[t].slot_dead
        /\ browser[caller[t].ret].child = "running"
        /\ browser[caller[t].slot_dead].child = "reaped"

\* C6: at most one task is between taking and releasing the mutex; a browser
\* a caller has received finished its launch and its blank-page step; and
\* when nothing goes wrong (no death, no failed probe or launch, no shutdown),
\* at most one browser is launched and all callers receive that one.
OneLaunchUnderLock ==
    /\ Cardinality({t \in Tasks : caller[t].pc \in Critical}) <= 1
    /\ \A t \in Tasks : caller[t].pc \in Critical => lock = t
    /\ \A t \in Tasks :
          caller[t].ret # 0 =>
              /\ browser[caller[t].ret].ready
              /\ browser[caller[t].ret].handle \in {"owned", "cleaned"}
    /\ ~faults =>
          /\ launches <= 1
          /\ \A t \in Tasks : caller[t].ret \in {0, 1}
          /\ \A t \in Tasks : caller[t].pc = "returned" => caller[t].ret = 1

\* Both tasks called instance() concurrently on the empty slot and hold the
\* one browser that was launched.
BothReceivedTheOneBrowser ==
    /\ ~faults
    /\ launches = 1
    /\ \A t \in Tasks : caller[t].pc = "returned" /\ caller[t].ret = 1

\* C7: at most one browser process launched through the accessor is alive,
\* and while a replacement is launched the process of the browser still in
\* the slot has been killed.
AtMostOneLiveBrowser ==
    /\ Cardinality({b \in Browsers : browser[b].child = "running"}) <= 1
    /\ \A t \in Tasks :
          (/\ caller[t].pc \in {"launch", "launch_spawn", "launch_connect",
                                "blank", "store"}
           /\ GLOBAL_BROWSER # 0)
          => browser[GLOBAL_BROWSER].child # "running"

\* C8: a launch that returned an error leaves no running child process.
FailedLaunchLeavesNoProcess ==
    \A b \in Browsers : browser[b].failed => browser[b].child # "running"

\* C9: a profile directory that was removed belonged to no process, or to one
\* that had been killed and waited for.
KilledBeforeRemoved ==
    \A b \in Browsers :
        browser[b].temp = "removed" => browser[b].child \in {"none", "reaped"}

\* C10: a screenshot call whose transparent override was sent and answered
\* has sent the clearing override when it returns, whether activation and
\* capture succeeded or one of them failed.
OverrideClearedOnReturn ==
    (/\ shot.pc = "returned"
     /\ shot.override_sent
     /\ shot.failed_at \in {"", "activate", "capture"})
    => shot.clear_sent

\* C11: opening a tab whose attach brought no session, and closing a tab
\* whose target is already closed, end with an error value: never with a
\* panic, and a close of a closed target never with Ok.
TabFailuresAreErrors ==
    \A i \in TabIds :
        /\ (tabs[i].pc = "gone" /\ tabs[i].created) => tabs[i].outcome = "Err"
        /\ (tabs[i].pc = "attached" /\ tabs[i].was_closed)
               => tabs[i].outcome = "Err"

\* C12: set_content never returns Ok when the readiness script ended through
\* its timeout rejection (an image that never completes): what the caller
\* gets then is an error.
TimeoutRejectionIsError ==
    (set_content.pc = "done" /\ script.promise = "rejected")
        => set_content.outcome = "Err"

\* C13: in every stage of the readiness script, the mutation-quiescence loop
\* included, a step taken after the overall timeout was exceeded settles the
\* promise by rejecting it: the script never resolves because the timeout
\* elapsed.
TimeoutAlwaysRejects ==
    [][(/\ clock - script.startTime > TOTAL_TIMEOUT
        /\ script.promise = "pending"
        /\ script'.promise # "pending")
           => script'.promise = "rejected"]_vars

EventReleasesExactlyItsKey ==
    [][\A f \in ws_stream :
          LET key == <<Get(f.params).sessionId, Get(f.params).message.method>>
          IN  (/\ ws_stream' = ws_stream \ {f}
               /\ IsSome(f.params) /\ ~IsSome(f.id)
               /\ ~IsSome(Get(f.params).message.id)
               /\ key \in DOMAIN event_listeners)
              => /\ key \notin DOMAIN event_listeners'
                 /\ \A k \in DOMAIN event_listeners \ {key} :
                        /\ k \in DOMAIN event_listeners'
                        /\ event_listeners'[k] = event_listeners[k]
                 /\ \A t \in Sessions :
                        fut[t].ev.st = "wait"
                        => IF Tx(t, "ev", fut[t].ev.n)
                                  \in Range(event_listeners[key])
                           THEN fut'[t].ev.st = "ok"
                           ELSE fut'[t].ev = fut[t].ev]_vars

\* Two waiters of one key were both released by the only occurrence emitted.
TwoWaitersReleasedByOneOccurrence ==
    /\ Cardinality(events) = 1
    /\ fut["s1"].ev.st = "ok"
    /\ fut["s2"].ev.st = "ok"

\* C16: an event frame processed while its (sessionId, method) key has no
\* waiter is discarded without a trace; a waiter is released only in a step
\* that processes an occurrence of its key while its sender is registered,
\* so never by an occurrence processed before it registered; and a waiter
\* that returns without having been released returns the timeout error.
EventWithoutWaiterIsDiscarded ==
    [][/\ \A f \in ws_stream :
            (/\ ws_stream' = ws_stream \ {f}
             /\ IsSome(f.params) /\ ~IsSome(f.id)
             /\ ~IsSome(Get(f.params).message.id)
             /\ <<Get(f.params).sessionId, Get(f.params).message.method>>
                    \notin DOMAIN event_listeners)
            => UNCHANGED <<event_listeners, pending_requests, command_rx, fut>>
       /\ \A t \in Sessions :
            (fut[t].ev.st = "wait" /\ fut'[t].ev.st = "ok")
            => \E f \in ws_stream :
                  LET key == <<Get(f.params).sessionId,
                               Get(f.params).message.method>>
                  IN  /\ ws_stream' = ws_stream \ {f}
                      /\ IsSome(f.params) /\ ~IsSome(f.id)
                      /\ key \in DOMAIN event_listeners
                      /\ Tx(t, "ev", fut[t].ev.n) \in Range(event_listeners[key])
       /\ \A t \in Sessions :
            (pc[t] = "wait" /\ fut[t].ev.st = "wait" /\ pc'[t] = "idle")
            => result'[t] = "Timeout"]_vars

\* The only occurrence of a key was processed, a waiter registered for that
\* key afterwards (its sender is still in the table) and timed out.
LateWaiterTimedOut ==
    \E t \in Sessions, k \in DOMAIN event_listeners :
        /\ pc[t] = "idle"
        /\ result[t] = "Timeout"
        /\ Tx(t, "ev", fut[t].ev.n) \in Range(event_listeners[k])
        /\ <<k[1], k[2], 1>> \in events
        /\ ws_stream = {}

\* C17: after a goto_no_wait that returned Ok, an explicit wait for the
\* session's load event returns Ok, also when the load event of that
\* navigation has already been processed by the actor (no load-event frame
\* of the session is left unread).
LoadWaitAfterNoWaitSucceeds ==
    [][\A t \in Sessions :
          (/\ navigated[t]
           /\ pc[t] = "wait"
           /\ pc'[t] = "idle"
           /\ ~\E f \in ws_stream :
                 /\ IsSome(f.params) /\ ~IsSome(f.id)
                 /\ ~IsSome(Get(f.params).message.id)
                 /\ Get(f.params).sessionId = t)
          => result'[t] = "Ok"]_vars

\* C18: every id a call draws is greater than every id drawn before (the ids
\* in use never exceed the counter, a new receiver's id does, and the
\* counter never goes back); the ids of the receivers that are waiting, the
\* outer and the inner id of one send_and_get_msg included, are pairwise
\* distinct; and no step replaces an entry of the pending table whose
\* waiter is still waiting.
IdsUniqueAndIncreasing ==
    /\ [](/\ \A t \in Sessions, k \in {"send", "recv"} :
                fut[t][k].id <= GLOBAL_ID_COUNTER
          /\ \A id \in DOMAIN pending_requests : id <= GLOBAL_ID_COUNTER
          /\ \A t1, t2 \in Sessions, k1, k2 \in {"send", "recv"} :
                (/\ <<t1, k1>> # <<t2, k2>>
                 /\ fut[t1][k1].st \in {"new", "wait"}
                 /\ fut[t2][k2].st \in {"new", "wait"}
                 /\ fut[t1][k1].id # 0)
                => fut[t1][k1].id # fut[t2][k2].id)
    /\ [][/\ GLOBAL_ID_COUNTER' >= GLOBAL_ID_COUNTER
          /\ \A t \in Sessions, k \in {"send", "recv"} :
                (fut'[t][k].n > fut[t][k].n /\ fut'[t][k].id # 0)
                => fut'[t][k].id > GLOBAL_ID_COUNTER
          /\ \A id \in DOMAIN pending_requests :
                LET tx == pending_requests[id]
                IN  (/\ fut[tx.t][tx.k].st = "wait"
                     /\ fut[tx.t][tx.k].n = tx.n
                     /\ id \in DOMAIN pending_requests')
                    => pending_requests'[id] = tx]_vars

\* Two tab commands are outstanding at once: four waiters under four ids.
TwoCommandsFourIds ==
    /\ pc["s1"] = "cmd"
    /\ pc["s2"] = "cmd"
    /\ Cardinality(DOMAIN pending_requests) = 4
    /\ \A t \in Sessions, k \in {"send", "recv"} : fut[t][k].st = "wait"

\* C19: a capture_html_with_options whose element screenshot succeeded
\* returns Ok with that image whatever the close of the tab returned, and
\* no call returns an error that comes from the close step.
CloseFailureNotReturned ==
    \A t \in Tasks :
        capture[t].pc = "done"
        => /\ capture[t].shot # ""
              => (capture[t].outcome = "Ok" /\ capture[t].value = capture[t].shot)
           /\ capture[t].outcome = "Err" => capture[t].value # "close"

\* A call returned Ok with its image although the close of its tab failed.
ReturnedImageAfterFailedClose ==
    \E t \in Tasks :
        /\ capture[t].pc = "done"
        /\ capture[t].close \in {"Err", "Timeout"}
        /\ capture[t].outcome = "Ok"
        /\ capture[t].value \in Images

\* C20: once close_async has returned on a launched browser, or the last
\* clone of it has been dropped, its profile directory is removed, unless
\* every one of the bounded removal attempts was made and failed.
ProfileRemovedAfterClose ==
    \A t \in Tasks :
        LET b == caller[t].ret
        IN  (\/ caller[t].pc = "closed"
             \/ caller[t].pc = "dropped" /\ b # 0 /\ Holders(b) = {})
            => \/ browser[b].temp = "removed"
               \/ attempts[b] = RemovalAttempts

\* close_async returned after a removal that succeeded on a retry.
ClosedAfterRetriedRemoval ==
    \E t \in Tasks :
        /\ caller[t].pc = "closed"
        /\ browser[caller[t].ret].temp = "removed"
        /\ attempts[caller[t].ret] \in 2..RemovalAttempts

\* C21: a find_element whose selector matches no node, and whose
\* DOM.querySelector was answered (without a nodeId or with nodeId 0), never
\* returns an Element and returns the error "Element not found".
MissIsElementNotFound ==
    \A i \in TabIds :
        (/\ find[i].pc = "done"
         /\ ~find[i].matches
         /\ find[i].error \notin {"send_and_get_msg", "unwrap"})
        => /\ find[i].outcome = "Err"
           /\ find[i].error = "Element not found"

\* C22: a shutdown_global that finds the slot empty changes neither the slot
\* nor any browser nor the number of launches; one that finds a browser takes
\* it out of the slot and has shut its transport down and killed and reaped
\* its process when it returns, with the slot still empty; and an instance()
\* that finds the slot empty goes on to launch.
ShutdownGlobalResets ==
    [][\A t \in Tasks :
          /\ (/\ caller[t].pc = "sd_waiting"
              /\ caller'[t].pc # "sd_waiting"
              /\ GLOBAL_BROWSER = 0)
             => /\ caller'[t].pc = "idle"
                /\ GLOBAL_BROWSER' = 0
                /\ browser' = browser
                /\ launches' = launches
                /\ lock' = lock
          /\ (/\ caller[t].pc = "sd_waiting"
              /\ caller'[t].pc # "sd_waiting"
              /\ GLOBAL_BROWSER # 0)
             => /\ GLOBAL_BROWSER' = 0
                /\ caller'[t].cur = GLOBAL_BROWSER
          /\ (caller[t].pc = "sd_rm" /\ caller'[t].pc # "sd_rm")
             => /\ GLOBAL_BROWSER' = 0
                /\ browser'[caller[t].cur].child = "reaped"
                /\ browser'[caller[t].cur].transport = "shutdown"
          /\ (/\ caller[t].pc = "locked"
              /\ caller'[t].pc # "locked"
              /\ GLOBAL_BROWSER = 0)
             => caller'[t].pc = "launch"]_vars

\* After a shutdown_global took the first browser out of the slot and reaped
\* its process, an instance() call is launching the second one.
LaunchingAfterShutdown ==
    \E t \in Tasks :
        /\ caller[t].pc = "launch_spawn"
        /\ caller[t].cur = 2
        /\ GLOBAL_BROWSER = 0
        /\ browser[1].child = "reaped"
        /\ browser[1].transport = "shutdown"
        /\ kills = 0

\* C23: an instance() or instance_with_path(p) call whose probe of the browser
\* in the slot was answered returns that browser, whatever p is and whatever
\* executable the browser runs: the slot, every browser and the number of
\* launches stay as they were; and the executable of a browser is set only by
\* the launch of the call that starts it, from the path of that call.
PathIgnoredWhenAlive ==
    [][/\ \A t \in Tasks :
             (/\ caller[t].pc = "locked"
              /\ caller'[t].pc # "locked"
              /\ caller'[t].probe = "ok")
             => /\ caller'[t].pc = "returned"
                /\ caller'[t].ret = GLOBAL_BROWSER
                /\ GLOBAL_BROWSER' = GLOBAL_BROWSER
                /\ browser' = browser
                /\ launches' = launches
                /\ lock' = ""
       /\ \A b \in Browsers :
             browser'[b].exe # browser[b].exe
             => \E u \in Tasks :
                   /\ caller[u].cur = b
                   /\ caller[u].pc = "launch_spawn"
                   /\ browser'[b].exe = find_chrome(caller[u].path)]_vars

\* instance_with_path was called with a path other than the one the browser
\* in the slot was launched with, and has returned that browser.
ReturnedBrowserOfOtherPath ==
    \E t \in Tasks :
        /\ caller[t].pc = "returned"
        /\ caller[t].probe = "ok"
        /\ caller[t].path \in Paths
        /\ caller[t].ret = GLOBAL_BROWSER
        /\ browser[GLOBAL_BROWSER].exe # find_chrome(caller[t].path)
        /\ browser[GLOBAL_BROWSER].child = "running"
        /\ launches = 1

\* C24: two capture requests of the same kind built from the same border quad
\* (element) or the same explicit clip (tab) carry the same clip, whatever
\* device_scale_factor the viewport of each call had; and the clip of an
\* element capture has scale 1.
ClipIndependentOfScale ==
    /\ (/\ IsSome(earlier)
        /\ Get(earlier).via = Get(latest).via
        /\ Get(earlier).input = Get(latest).input)
       => Get(earlier).clip = Get(latest).clip
    /\ (IsSome(latest) /\ Get(latest).via = "element")
       => Get(Get(latest).clip).scale = 1

\* Two element captures of the same border quad, one under scale factor 1
\* and one under the largest scale factor, both with a clip of positive size
\* away from the origin.
SameBoxTwoScales ==
    /\ IsSome(earlier)
    /\ Get(earlier).via = "element"
    /\ Get(latest).via = "element"
    /\ Get(earlier).input = Get(latest).input
    /\ Get(earlier).viewport = 1
    /\ Get(latest).viewport = MaxScale
    /\ Get(Get(latest).clip).width > 0
    /\ Get(Get(latest).clip).x > 0

\* C25: once the read stream of the socket has ended cleanly, the actor does
\* not go on serving its command queue: a step that takes a command from the
\* queue of a running actor on such a socket stops the actor.
ClosedSocketStopsActor ==
    [][(/\ ws_state = "eof"
        /\ actor = "running"
        /\ command_rx # <<>>
        /\ command_rx' = Tail(command_rx))
       => actor' = "stopped"]_vars

\* C26: once the actor has stopped after a Shutdown, no receiver of a caller
\* is left waiting (each holds a value or the error of a dropped sender, so
\* no timeout is waited for) and the actor's tables and queue are empty;
\* nothing is added to what was written to the socket; and a call that starts
\* returns at once with the error of a dropped actor.
ShutdownFailsEveryWaiter ==
    /\ [](actor = "stopped"
          => /\ \A t \in Sessions, k \in Kinds : fut[t][k].st # "wait"
             /\ pending_requests = <<>>
             /\ event_listeners = <<>>
             /\ command_rx = <<>>)
    /\ [][actor = "stopped" => ws_sink' \subseteq ws_sink]_vars
    /\ [][(actor = "stopped" /\ calls' # calls)
          => \E t \in Sessions :
                /\ pc[t] = "idle"
                /\ pc'[t] = "idle"
                /\ result'[t] = "ActorDropped"]_vars

\* The actor has processed Shutdown (Browser.close was written); a caller
\* that was waiting then got the error of its dropped sender, and a caller
\* that called afterwards got the error of a dropped actor.
WaiterFailedAndLateCallRefused ==
    /\ actor = "stopped"
    /\ \E c \in ws_sink : c.method = "Browser.close"
    /\ result["s1"] = "ChannelClosed"
    /\ result["s2"] = "ActorDropped"
    /\ pc["s1"] = "idle"
    /\ pc["s2"] = "idle"

\* C27: a receiver created by send is never resolved by an embedded reply,
\* and a receiver created by get_target_msg is never resolved by a top-level
\* response.
WaiterKindsIndependent ==
    \A t \in Sessions :
        /\ fut[t].send.got.variant # "Target"
        /\ fut[t].recv.got.variant # "Response"

\* C28: when the actor processes a frame that carries the id of an entry
\* whose caller has given up, the entry is removed, no receiver is resolved
\* and the actor keeps running; and such an entry leaves the table in no
\* other step.
LateReplyRemovesEntry ==
    [][/\ \A f \in ws_stream :
             (/\ f \notin ws_stream'
              /\ IsSome(FrameId(f))
              /\ Get(FrameId(f)) \in DOMAIN pending_requests
              /\ Abandoned(Get(FrameId(f))))
             => /\ Get(FrameId(f)) \notin DOMAIN pending_requests'
                /\ fut' = fut
                /\ actor' = "running"
       /\ \A k \in DOMAIN pending_requests :
             (Abandoned(k) /\ k \notin DOMAIN pending_requests')
             => \E f \in ws_stream :
                   f \notin ws_stream' /\ FrameId(f) = Some(k)]_vars

\* C29: when the actor processes the reply to a command sent by send while
\* the caller is still waiting for it, the caller's receiver holds that reply
\* after the step, whatever else is outstanding and in whatever order the
\* commands were sent.
ReplyInTimeCompletes ==
    [][\A f \in ws_stream, t \in Sessions :
          (/\ f \notin ws_stream'
           /\ IsSome(f.id)
           /\ fut[t].send.st = "wait"
           /\ fut[t].send.id = Get(f.id))
          => /\ fut'[t].send.st = "ok"
             /\ fut'[t].send.got.id = Get(f.id)
             /\ fut'[t].send.got.variant = "Response"]_vars

\* C30: when the actor processes a frame that is not text, or is neither a
\* response nor a relayed message, or relays a message with neither id nor
\* method, or names an id or an event key under which nothing is registered,
\* both tables and every receiver stay as they were and the actor keeps
\* running.
UnmatchedFrameChangesNothing ==
    [][\A f \in ws_stream :
          (/\ f \notin ws_stream'
           /\ \/ ~f.text
              \/ ~(IsSome(f.id) /\ f.result) /\ ~IsSome(f.params)
              \/ /\ IsSome(f.id) /\ f.result
                 /\ Get(f.id) \notin DOMAIN pending_requests
              \/ /\ ~(IsSome(f.id) /\ f.result)
                 /\ IsSome(f.params)
                 /\ LET inner == Get(f.params).message
                    IN  IF IsSome(inner.id)
                        THEN Get(inner.id) \notin DOMAIN pending_requests
                        ELSE \/ inner.method = ""
                             \/ <<Get(f.params).sessionId, inner.method>>
                                   \notin DOMAIN event_listeners)
          => /\ pending_requests' = pending_requests
             /\ event_listeners' = event_listeners
             /\ fut' = fut
             /\ actor' = "running"]_vars

\* The actor has processed an embedded reply for which nothing was
\* registered while the waiter of a send stayed registered and waiting.
DroppedFrameBesideWaiter ==
    /\ actor = "running"
    /\ dropped_replies # {}
    /\ ws_stream = {}
    /\ \E k \in DOMAIN pending_requests :
          /\ pending_requests[k].t = "s1"
          /\ fut["s1"].send.st = "wait"
          /\ fut["s1"].send.id = k

\* C31: a reply that lacks an expected field makes the operation return an
\* error at that step: no capture request of an element is built from a
\* box-model reply in which an entry of the border quad that the clip reads
\* is missing.
MissingFieldIsError ==
    (IsSome(latest) /\ Get(latest).via = "element")
        => \A k \in {0, 1, 2, 5} : IsSome(Get(latest).input[k])

\* C37: when capture_html_with_options has returned, on an error path after
\* the tab was created as well as on success, the close command of its tab
\* has been issued.
EveryCreatedTabClosed ==
    \A t \in Tasks :
        (/\ capture[t].pc = "done"
         /\ ~(capture[t].outcome = "Err" /\ capture[t].value = "new_tab"))
        => capture[t].close # ""

\* C40: find_chrome returns the first candidate in the order caller path,
\* CHROME variable, install paths, PATH lookup (without flatpak and snap
\* candidates), registry: a source is the one returned only when every
\* earlier source yields nothing, and the call fails only when every source
\* yields nothing.
FindChromeFirstOfOrder ==
    chrome.pc = "done" =>
        LET e == chrome.env
            r == chrome.ret
            custom == e.custom = "exists"
            path == \E i \in 1..MaxApps : e.which[i] = "plain"
            registry == e.os = "windows" /\ e.registry = "exists"
        IN  /\ ~r.ok => ~(custom \/ e.CHROME \/ e.known \/ path \/ registry)
            /\ r.ok =>
                  r.source = IF custom THEN "custom"
                             ELSE IF e.CHROME THEN "env"
                             ELSE IF e.known THEN "known"
                             ELSE IF path THEN "path"
                             ELSE "registry"

\* C32: a launch whose child could not bind the debug port, and so never
\* announces a URL, eventually returns from wait_for_ws.
BindFailureReturns ==
    (wcall.pc = "waiting" /\ ~wcall.bound) ~> (wcall.pc = "returned")

\* C33: wait_for_ws delivers at most one outcome, and it is the URL of the
\* first line read that announces one, or, when the reader stopped at the
\* end of the stream or at a failed read before such a line, an error; what
\* the call returns is that outcome.
OneOutcomeFromFirstMatch ==
    LET c == reader.consumed
        hits == {i \in 1..Len(c) : c[i] \in {"ws1", "ws2"}}
        first == CHOOSE i \in hits : \A j \in hits : i <= j
    IN  /\ Len(sent) <= 1
        /\ hits # {} => sent = <<WsOk(c[first])>>
        /\ (hits = {} /\ reader.pc = "ended")
              => /\ Len(sent) = 1
                 /\ ~sent[1].ok
                 /\ \/ stderr.lines = <<>> /\ ~stderr.open
                    \/ c # <<>> /\ c[Len(c)] = "bad"
        /\ (hits = {} /\ reader.pc # "ended") => sent = <<>>
        /\ wcall.pc = "returned" => wcall.ret = Some(sent[1])

\* The call returned the first URL although the child announced a second one
\* after it, which the reader of browser.rs has read as well.
ReturnedFirstOfTwoUrls ==
    /\ wcall.pc = "returned"
    /\ wcall.ret = Some(WsOk("ws1"))
    /\ reader.src = "browser.rs"
    /\ reader.consumed = <<"log", "ws1", "ws2">>

\* C34: once the URL was delivered, the reader does not stop while the child
\* can still write or while lines are unread.
ReaderDrainsAfterMatch ==
    (reader.pc = "ended" /\ reader.found)
        => (~stderr.open /\ stderr.lines = <<>>)

\* C39: no two launches run a browser with the same user-data directory at
\* the same time, whenever they were started.
NoSharedProfileDir ==
    \A l1, l2 \in 1..MaxDirLaunches :
        (/\ l1 # l2
         /\ dir_launch[l1].pc \in ChildRuns
         /\ dir_launch[l2].pc \in ChildRuns)
        => dir_launch[l1].path # dir_launch[l2].path

\* C35: the promise of the readiness script is resolved only by the second of
\* two animation frames, and these are requested only by a poll at which the
\* time since the script started is at least MIN_RENDER_TIME and the time
\* since the last mutation observed is at least STABILITY_THRESHOLD.
DoneOnlyAfterQuietPollAndFrames ==
    [][/\ (script.promise # "resolved" /\ script'.promise = "resolved")
             => script.stage = "raf2"
       /\ (script.stage # "raf1" /\ script'.stage = "raf1")
             => /\ clock - script'.startTime >= MIN_RENDER_TIME
                /\ clock - script'.lastMutationTime >= STABILITY_THRESHOLD]_vars

\* C36: for the clones of one Browser, under any interleaving of close_async
\* calls and drops, the process is torn down once: the step that kills the
\* child is a close_async, or the drop of the only clone left, on a process
\* that is still owned; after it the child and the handle stay as they are;
\* the profile directory is removed, and removal attempted, only by that
\* teardown; a close_async on a browser already torn down touches neither
\* child nor directory and returns Ok; a drop while another clone exists
\* changes nothing; and a browser whose close_async returned is torn down.
TornDownExactlyOnce ==
    /\ [](\A t \in Tasks :
             caller[t].pc = "closed" =>
                 browser[caller[t].ret].handle = "cleaned")
    /\ [][\A b \in Browsers :
            LET closes(t) == /\ caller[t].pc = "returned"
                             /\ caller'[t].pc = "ca_rm"
                             /\ caller[t].cur = b
                returns(t) == /\ caller[t].pc = "ca_rm"
                              /\ caller'[t].pc = "closed"
                              /\ caller[t].cur = b
                drops(t) == /\ caller[t].pc \in {"returned", "closed"}
                            /\ caller'[t].pc = "dropped"
                            /\ caller[t].ret = b
            IN  /\ browser[b].handle = "cleaned"
                     => /\ browser'[b].handle = "cleaned"
                        /\ browser'[b].child = browser[b].child
                /\ (browser[b].handle # "cleaned"
                    /\ browser'[b].handle = "cleaned")
                     => /\ browser[b].handle = "owned"
                        /\ browser'[b].child = "reaped"
                        /\ \E t \in Tasks :
                              closes(t) \/ (drops(t) /\ Holders(b) = {t})
                /\ (attempts'[b] # attempts[b]
                    \/ (browser[b].temp = "exists"
                        /\ browser'[b].temp # "exists"))
                     => /\ attempts[b] = 0
                        /\ browser[b].temp = "exists"
                        /\ attempts'[b] \in 1..RemovalAttempts
                        /\ browser'[b].handle = "cleaned"
                        /\ \E t \in Tasks :
                              \/ returns(t)
                              \/ /\ drops(t)
                                 /\ Holders(b) = {t}
                                 /\ browser[b].handle = "owned"
                /\ \A t \in Tasks :
                      /\ (closes(t) /\ browser[b].handle = "cleaned")
                            => /\ browser'[b] =
                                     [browser[b] EXCEPT !.transport = "shutdown"]
                               /\ attempts' = attempts
                      /\ (returns(t) /\ attempts[b] # 0)
                            => /\ browser' = browser
                               /\ attempts' = attempts
                      /\ (drops(t) /\ Holders(b) # {t})
                            => /\ browser' = browser
                               /\ attempts' = attempts]_vars

\* Both clones were closed, one after the other, and later dropped; the
\* child was reaped and the directory removed by the first close.
ClosedTwiceTornDownOnce ==
    \E b \in Browsers :
        /\ \A t \in Tasks : caller[t].pc = "dropped" /\ caller[t].ret = b
        /\ browser[b].child = "reaped"
        /\ browser[b].handle = "cleaned"
        /\ browser[b].temp = "removed"
        /\ browser[b].transport = "shutdown"
        /\ attempts[b] = 1

====
